---- MODULE Spec2Model ----
(***************************************************************************)
(* Model of the agentic-brain core: the tool registry (MCPManager), the    *)
(* agent loop (BrainAgent) and the chat entry point.  One registry is      *)
(* shared by a connect_all task and a chat request; both suspend at their  *)
(* network calls, which is where the two interleave.                       *)
(***************************************************************************)
EXTENDS Integers, Sequences, FiniteSets, TLC

\* ------------------------------------------------------------------ bounds
\* model invocations explored per chat request (the code has no cap)
MaxModelCalls == 2
\* tool-call requests explored per chat request, over all its responses
MaxToolCalls == 2
\* connect_all invocations explored
MaxConnects == 2
\* largest max_attempts argument explored for a wrapped function
MaxAttemptsArg == 6
\* longest history explored for the set-up of a chat request
MaxHistory == 3
\* StateManager calls explored on the session
MaxStoreCalls == 52
\* messages explored in a session before the request that is followed
MaxPriorMessages == 2
\* StateManager calls explored in which a Redis command ends with an error
MaxFaultyCalls == 1

\* --------------------------------------------------------------- constants
\* retry_on_network_error(max_attempts=3) on call_tool
MaxAttempts == 3

\* the compiled graph is invoked without a config: the recursion limit of a
\* run is the graph library's default
RecursionLimit == 25

\* the configured server map, in dict order (self.servers)
Servers == <<"fs", "shell">>

ServerSet == {Servers[i] : i \in 1..Len(Servers)}

\* ------------------------------------------------------------ option value
\* Python's None / a present value
None == <<>>

Some(v) == <<v>>

IsSome(o) == Len(o) = 1

\* ------------------------------------------------------------- retry policy
\* an exception: its class and its message
Exc(t, m) == [type |-> t, message |-> m]

\* the class itself and its base classes (builtins, httpx, anthropic)
Bases(t) ==
  CASE t = "httpx.ConnectError" ->
         {t, "httpx.TransportError", "httpx.RequestError", "httpx.HTTPError"}
    [] t = "httpx.ReadTimeout" ->
         {t, "httpx.TimeoutException", "httpx.TransportError", "httpx.RequestError",
          "httpx.HTTPError"}
    [] t = "httpx.HTTPStatusError" -> {t, "httpx.HTTPError"}
    [] t = "anthropic.APITimeoutError" -> {t, "anthropic.APIConnectionError"}
    [] t = "anthropic.RateLimitError" -> {t, "anthropic.APIStatusError"}
    [] OTHER -> {t}

\* the classes named by retry_if_exception_type, per decorator
RetryableClasses(policy) ==
  IF policy = "network"
    THEN {"ConnectionError", "TimeoutError", "httpx.RequestError", "httpx.TimeoutException"}
    ELSE {"ConnectionError", "TimeoutError", "anthropic.APIConnectionError",
          "anthropic.APITimeoutError", "anthropic.RateLimitError"}

\* every exception counts as retryable
RetryIfAnyException(policy, e) == TRUE

\* retry=retry_if_exception_type(...): isinstance against the class tuple
RetryIfExceptionType(policy, e) == Bases(e.type) \cap RetryableClasses(policy) # {}

\* stop=stop_after_attempt(max_attempts)
StopAfterAttempt(attempt_number, max_attempts) == attempt_number >= max_attempts

\* reraise=False: the last exception is wrapped
WrapInRetryError(e) == Exc("tenacity.RetryError", e.type)

\* reraise=True: the exception of the last attempt leaves the wrapper as it is
Reraise(e) == e

\* wait_exponential(multiplier=...): 1 for the network decorator, 2 for the
\* model-API decorator
Multiplier(policy) == IF policy = "network" THEN 1 ELSE 2

\* min_wait_seconds, default per decorator
MinWaitSeconds(policy) == IF policy = "network" THEN 1 ELSE 2

\* max_wait_seconds, default per decorator
MaxWaitSeconds(policy) == IF policy = "network" THEN 10 ELSE 30

RECURSIVE Pow(_, _)
Pow(b, n) == IF n = 0 THEN 1 ELSE b * Pow(b, n - 1)

Min2(a, b) == IF a <= b THEN a ELSE b

Max2(a, b) == IF a >= b THEN a ELSE b

\* the wait is always the minimum
WaitFixed(multiplier, min, max, attempt_number) == min

\* wait_exponential: multiplier * 2^(attempt_number - 1), kept within
\* [min, max]; attempt_number is the number of the attempt that just failed
WaitExponential(multiplier, min, max, attempt_number) ==
  Max2(Max2(0, min), Min2(multiplier * Pow(2, attempt_number - 1), max))

\* the wrapper never invokes again
RetryDecisionGiveUp(policy, max_attempts, attempt_number, e) == "raise"

\* what the wrapper does after an attempt that raised e: let a non-retryable
\* exception through, stop and re-raise, or sleep and invoke again
RetryDecision(policy, max_attempts, attempt_number, e) ==
  IF ~ RetryIfExceptionType(policy, e) THEN "raise"
  ELSE IF StopAfterAttempt(attempt_number, max_attempts) THEN "reraise"
  ELSE "sleep"

\* --------------------------------------------------------- tool descriptors
Tool(n, d) == [name |-> n, description |-> d]

\* what a discovery endpoint may answer in its "tools" field
Payloads ==
  { <<Tool("read_file", "Read a file")>>,
    <<Tool("read_file", "Read a file"), Tool("run", "Run a command")>> }

\* outcome of one discovery request: 200 with a tool list, a non-200 status,
\* or a failure inside the try block (a timeout of the request, a payload
\* that response.json() cannot decode)
DiscoveryOutcomes ==
  {[kind |-> "ok", tools |-> p] : p \in Payloads}
    \cup {[kind |-> k, tools |-> <<>>] : k \in {"status", "timeout", "malformed"}}

\* ------------------------------------------------- ordered dict (self.tools)
\* a Python dict keeps insertion order: a sequence of [key, val] entries
DictHas(d, k) == \E i \in 1..Len(d) : d[i].key = k

DictGet(d, k) == d[CHOOSE i \in 1..Len(d) : d[i].key = k].val

DictSet(d, k, v) ==
  IF DictHas(d, k)
    THEN [i \in 1..Len(d) |-> IF d[i].key = k THEN [key |-> k, val |-> v] ELSE d[i]]
    ELSE Append(d, [key |-> k, val |-> v])

\* --------------------------------------------------------------- variables
VARIABLES
  tools,            \* MCPManager.tools: ordered dict server -> tool list
  toolsCache,       \* MCPManager._tools_cache: None or the merged list
  connPc,           \* connect_all: "idle" or "discover" (awaiting a server)
  connIdx,          \* connect_all: index in Servers of the awaited server
  connected,        \* connect_all: local counter
  gauge,            \* mcp_servers_connected gauge
  connects,         \* number of connect_all invocations started
  discAttempt,      \* _discover_tools: attempt number of its retry wrapper,
                    \* which is the number of GET requests sent to the server
  discovered,       \* per server the latest connect_all is done with: how its
                    \* last discovery request ended and how many were sent
  warnings,         \* warning records logged by the latest connect_all
  toolsSeen,        \* every value the constructor or a discovery gave self.tools
  pc,               \* chat request: position
  input,            \* chat request: its arguments
  messages,         \* AgentState.messages
  initLen,          \* length of the message sequence built by chat
  tcIdx,            \* _execute_tools: index of the tool call in the batch
  results,          \* _execute_tools: local results list
  owner,            \* _execute_tools: server_name of the call in flight
  attempt,          \* call_tool: attempt number of the retry wrapper, which is
                    \* the number of HTTP posts sent for the call in flight
  toolOut,          \* call_tool: how the latest invocation ended, as seen by
                    \* _execute_tools (returned / raised, after how many attempts)
  modelCalls,       \* number of model invocations of this chat
  boundTools,       \* tool schemas bound to the model at the last invocation
  chatOut,          \* outcome of chat: none / returned value / raised
  lastRead,         \* result of the latest get_available_tools call
  prevRead,         \* result of the call before it
  connBetween,      \* a connect_all began between those two calls
  changedBetween,   \* a per-server tool list changed between those two calls
  connSinceRead,    \* a connect_all began since the latest call
  changedSinceRead, \* a per-server tool list changed since the latest call
  readAfterConnect, \* the latest call was made after a connect_all completed,
                    \* and no connect_all began since
  wrapped,          \* a call of a retry-wrapped operation made by a direct
                    \* caller: position, arguments, invocations of the
                    \* operation, posts sent, exceptions raised, waits
                    \* before the retries (seconds), metrics recorded,
                    \* outcome
  step,             \* graph run: number of node executions started
  session,          \* the Redis list session:{session_id}:messages
  pushLog,          \* every entry an RPUSH added to that list, in order
  storeCall,        \* the StateManager call in flight: operation, arguments,
                    \* the command awaited, attempt number, outcome
  faults,           \* number of StateManager calls hit by a Redis error
  handler,          \* the /chat handler: position, history read, response
  health            \* outcome of the latest check_health call

regVars ==
  <<tools, toolsCache, connPc, connIdx, connected, gauge, connects, discAttempt,
    discovered, warnings, toolsSeen>>

chatVars ==
  <<pc, input, messages, initLen, tcIdx, results, owner, attempt, toolOut,
    modelCalls, boundTools, chatOut, step>>

readVars ==
  <<lastRead, prevRead, connBetween, changedBetween, connSinceRead,
    changedSinceRead, readAfterConnect>>

storeVars == <<session, pushLog, storeCall, faults>>

svcVars == <<storeVars, handler, health>>

vars == <<regVars, chatVars, readVars, wrapped, svcVars>>

\* ------------------------------------------------------------ tool registry
\* get_available_tools: the copy of a discovered tool, tagged with its server
TagTool(t, s) == [name |-> t.name, description |-> t.description, server |-> s]

\* the entries are listed within a server in reverse order
TagAllReversed(ts, s) == [i \in 1..Len(ts) |-> TagTool(ts[Len(ts) + 1 - i], s)]

TagAll(ts, s) == [i \in 1..Len(ts) |-> TagTool(ts[i], s)]

\* get_available_tools, cache miss: every per-server list, in dict order
RECURSIVE FlattenTools(_)
FlattenTools(d) ==
  IF d = <<>> THEN <<>> ELSE TagAll(d[1].val, d[1].key) \o FlattenTools(Tail(d))

\* the cache is never consulted
GetAvailableToolsNoCache(cache, d) ==
  [result |-> FlattenTools(d), cache |-> Some(FlattenTools(d))]

\* the merged list is handed out before its last tool is appended
GetAvailableToolsPartial(cache, d) ==
  IF cache # None
    THEN [result |-> cache[1], cache |-> cache]
    ELSE [result |-> SubSeq(FlattenTools(d), 1, Len(FlattenTools(d)) - 1),
          cache |-> Some(FlattenTools(d))]

\* get_available_tools: the list it returns and the cache it leaves
GetAvailableTools(cache, d) ==
  IF cache # None
    THEN [result |-> cache[1], cache |-> cache]
    ELSE [result |-> FlattenTools(d), cache |-> Some(FlattenTools(d))]

\* the tag is set on the discovered entries themselves
ToolsAfterReadNoCopy(cache, d) ==
  IF cache # None THEN d
  ELSE [i \in 1..Len(d) |-> [key |-> d[i].key, val |-> TagAll(d[i].val, d[i].key)]]

\* get_available_tools, lines 105-109: self.tools after the call; the tag is
\* set on tool.copy(), so the discovered entries stay as they are
ToolsAfterRead(cache, d) == d

\* a get_available_tools call made by the running chat request (it has no
\* suspension point: the whole call is one step of the caller)
ReadTools ==
  LET r == GetAvailableTools(toolsCache, tools) IN
    /\ toolsCache' = r.cache
    /\ tools' = ToolsAfterRead(toolsCache, tools)
    /\ lastRead' = Some(r.result)
    /\ prevRead' = lastRead
    /\ connBetween' = connSinceRead
    /\ changedBetween' = changedSinceRead
    /\ connSinceRead' = FALSE
    /\ changedSinceRead' = FALSE
    /\ readAfterConnect' = (connPc = "idle" /\ connects > 0)

\* connect_all, first line: the cache it leaves
InvalidatedCache(cache) == None

\* the list is stored under the server's URL instead of its name
DiscoverToolsByUrl(d, server, o) ==
  CASE o.kind = "ok" -> DictSet(d, "http://" \o server \o "/sse", o.tools)
    [] o.kind = "status" -> d
    [] OTHER -> DictSet(d, "http://" \o server \o "/sse", <<>>)

\* _discover_tools: self.tools after one discovery of `server`
DiscoverTools(d, server, o) ==
  CASE o.kind = "ok" -> DictSet(d, server, o.tools)
    [] o.kind = "status" -> d
    [] OTHER -> DictSet(d, server, <<>>)

\* _discover_tools, try block: the exception raised inside it, if any
TryException(o) ==
  CASE o.kind = "timeout" -> Some(Exc("httpx.ReadTimeout", "timed out"))
    [] o.kind = "malformed" -> Some(Exc("ValueError", "Expecting value"))
    [] OTHER -> None

\* the handler lets the exception through
DiscoverExceptReraise(e) == Some(e)

\* _discover_tools, lines 59-62: the handler logs at debug level and ends
\* normally; the exception that leaves it
DiscoverExcept(e) == None

\* the exception that leaves the body of _discover_tools, if any
DiscoverRaised(o) ==
  IF IsSome(TryException(o)) THEN DiscoverExcept(TryException(o)[1]) ELSE None

\* the retry wrapper of _discover_tools after one run of the body
DiscoverDecision(o, n) ==
  IF IsSome(DiscoverRaised(o))
    THEN RetryDecision("network", MaxAttempts, n, DiscoverRaised(o)[1])
    ELSE "return"

\* connect_all up to its first suspension: invalidate, then request server 1
ConnectAllStart ==
  /\ connPc = "idle"
  /\ connects < MaxConnects
  /\ toolsCache' = InvalidatedCache(toolsCache)
  /\ connected' = 0
  /\ connIdx' = 1
  /\ connPc' = "discover"
  /\ connects' = connects + 1
  /\ discAttempt' = 1
  /\ discovered' = <<>>
  /\ warnings' = 0
  /\ connSinceRead' = TRUE
  /\ readAfterConnect' = FALSE
  /\ UNCHANGED <<svcVars, wrapped, tools, toolsSeen, gauge, chatVars, lastRead, prevRead, connBetween,
                 changedBetween, changedSinceRead>>

\* connect_all resumed by the answer of the awaited server: _discover_tools
\* stores its result; its retry wrapper sends the request again or ends; the
\* loop of connect_all counts the server or logs a warning, then moves to
\* the next server or sets the gauge and returns
DiscoverReturn ==
  \E o \in DiscoveryOutcomes :
    /\ connPc = "discover"
    /\ tools' = DiscoverTools(tools, Servers[connIdx], o)
    /\ toolsSeen' = toolsSeen \cup {tools'}
    /\ changedSinceRead' = (changedSinceRead \/ tools' # tools)
    /\ IF DiscoverDecision(o, discAttempt) = "sleep"
         THEN /\ discAttempt' = discAttempt + 1
              /\ UNCHANGED <<connPc, connIdx, connected, gauge, discovered, warnings>>
         ELSE LET raised == DiscoverDecision(o, discAttempt) # "return"
                  count == IF raised THEN connected ELSE connected + 1
              IN /\ discovered' = Append(discovered, [kind |-> o.kind, gets |-> discAttempt])
                 /\ warnings' = IF raised THEN warnings + 1 ELSE warnings
                 /\ IF connIdx < Len(Servers)
                      THEN /\ connIdx' = connIdx + 1
                           /\ connected' = count
                           /\ discAttempt' = 1
                           /\ UNCHANGED <<connPc, gauge>>
                      ELSE /\ connIdx' = 0
                           /\ connected' = 0
                           /\ discAttempt' = 0
                           /\ connPc' = "idle"
                           /\ gauge' = count
    /\ UNCHANGED <<svcVars, wrapped, toolsCache, connects, chatVars, lastRead, prevRead,
                   connBetween, changedBetween, connSinceRead, readAfterConnect>>

\* ------------------------------------------------------------------ messages
\* message content: a string, or a list of text blocks (the model client
\* returns a list when a response has several blocks or none), or a value
\* the message constructors reject (None, a number)
CStr(s) == [kind |-> "str", text |-> s, blocks |-> <<>>]

CList(bs) == [kind |-> "list", text |-> "", blocks |-> bs]

CInvalid == [kind |-> "invalid", text |-> "", blocks |-> <<>>]

\* Python truthiness of a content value
Truthy(c) ==
  \/ c.kind = "str" /\ c.text # ""
  \/ c.kind = "list" /\ c.blocks # <<>>

RECURSIVE ReprItems(_)
ReprItems(bs) ==
  IF bs = <<>> THEN ""
  ELSE "'" \o bs[1] \o "'" \o (IF Len(bs) > 1 THEN ", " ELSE "") \o ReprItems(Tail(bs))

\* str(content)
PyStr(c) ==
  CASE c.kind = "str" -> c.text
    [] c.kind = "list" -> "[" \o ReprItems(c.blocks) \o "]"
    [] OTHER -> "None"

SystemMessage(c) == [type |-> "system", content |-> c, tool_calls |-> <<>>, tool_call_id |-> 0]

HumanMessage(c) == [type |-> "human", content |-> c, tool_calls |-> <<>>, tool_call_id |-> 0]

AIMessage(c, tcs) == [type |-> "ai", content |-> c, tool_calls |-> tcs, tool_call_id |-> 0]

ToolMessage(s, id) == [type |-> "tool", content |-> CStr(s), tool_calls |-> <<>>, tool_call_id |-> id]

\* the update is put in front of the messages
AddMessagesInFront(left, right) == right \o left

\* the add_messages reducer of AgentState.messages, for messages with fresh ids
AddMessages(left, right) == left \o right

\* -------------------------------------------------------------- chat set-up
BasePrompt ==
  "You are a helpful AI assistant with access to various tools and systems.\nYou can help with tasks, answer questions, and interact with connected services."

InterfacePrompt(interface) ==
  CASE interface = "voice" -> Some("The user is interacting via voice. Keep responses concise and conversational.")
    [] interface = "telegram" -> Some("The user is messaging via Telegram. Use clear, formatted text.")
    [] interface = "api" -> Some("This is a programmatic API interaction.")
    [] OTHER -> None

LanguagePrompt(language) ==
  CASE language = "pl" -> Some("Respond in Polish.")
    [] language = "en" -> Some("Respond in English.")
    [] OTHER -> None

RECURSIVE JoinParts(_)
JoinParts(parts) ==
  IF Len(parts) = 1 THEN parts[1] ELSE parts[1] \o "\n\n" \o JoinParts(Tail(parts))

\* the language clause comes before the interface clause
BuildSystemPromptLanguageFirst(interface, language) ==
  JoinParts(<<BasePrompt>> \o LanguagePrompt(language) \o InterfacePrompt(interface))

\* _build_system_prompt
BuildSystemPrompt(interface, language) ==
  JoinParts(<<BasePrompt>> \o InterfacePrompt(interface) \o LanguagePrompt(language))

\* _convert_history_to_messages, one entry: the messages it appends
ConvertEntry(msg) ==
  CASE msg.role = "user" -> <<HumanMessage(msg.content)>>
    [] msg.role = "assistant" -> <<AIMessage(msg.content, <<>>)>>
    [] msg.role = "system" -> <<SystemMessage(msg.content)>>
    [] OTHER -> <<>>

\* the entries are mapped in reverse order
RECURSIVE ConvertHistoryReversed(_)
ConvertHistoryReversed(history) ==
  IF history = <<>> THEN <<>>
  ELSE ConvertHistoryReversed(Tail(history)) \o ConvertEntry(history[1])

RECURSIVE ConvertHistoryToMessages(_)
ConvertHistoryToMessages(history) ==
  IF history = <<>> THEN <<>>
  ELSE ConvertEntry(history[1]) \o ConvertHistoryToMessages(Tail(history))

\* a message constructor rejects its content (pydantic validation error)
ConstructorRaises(ms) == \E i \in 1..Len(ms) : ms[i].content.kind = "invalid"

\* the system prompt is left out
InitialMessagesNoSystem(in) ==
  ConvertHistoryToMessages(in.history) \o <<HumanMessage(CStr(in.message))>>

\* chat, lines 215-220: the initial message sequence
InitialMessages(in) ==
  <<SystemMessage(CStr(BuildSystemPrompt(in.interface, in.language)))>>
    \o ConvertHistoryToMessages(in.history)
    \o <<HumanMessage(CStr(in.message))>>

FallbackText == "I apologize, I couldn't generate a response."

ApologyText == "I apologize, I couldn't generate a response. Please try again."

NoOutcome == [kind |-> "none", value |-> ""]

Returned(s) == [kind |-> "returned", value |-> s]

Raised(e) == [kind |-> "raised", value |-> e]

\* the handler lets the exception through
ChatExceptReraise(e) == Raised(e)

\* chat, lines 243-245: the outermost handler
ChatExcept(e) == Returned(ApologyText)

\* the final response without the fallback for empty content
FinalResponseNoFallback(final_messages) ==
  PyStr(final_messages[Len(final_messages)].content)

\* chat, lines 235-241: the final response
FinalResponse(final_messages) ==
  IF final_messages # <<>>
    THEN LET content == final_messages[Len(final_messages)].content IN
           IF Truthy(content) THEN PyStr(content) ELSE FallbackText
    ELSE FallbackText

\* --------------------------------------------------------------- environment
\* chat requests explored: (message, history, interface, language)
Entry(r, c) == [role |-> r, content |-> c]

Histories ==
  { <<>>,
    <<Entry("system", CStr("s1")), Entry("tool", CStr("t1")), Entry("user", CStr("q1"))>>,
    <<Entry("user", CInvalid)>> }

ChatInputs ==
  {[message |-> "hi", history |-> h, interface |-> "voice", language |-> "pl"] :
     h \in Histories}

\* history entries, interfaces and languages explored for the set-up
SetupEntries ==
  {Entry(r, c) : r \in {"user", "assistant", "system", "tool"},
                 c \in {CStr("a"), CStr("b")}}
    \cup {Entry("user", CInvalid), Entry("tool", CInvalid)}

SetupInterfaces == {"voice", "telegram", "api", "Voice", "sms"}

SetupLanguages == {"pl", "en", "de", ""}

ToolCallNames == {"read_file", "nope"}

\* the batches of tool names a response may request
RECURSIVE SeqsUpTo(_, _)
SeqsUpTo(S, n) ==
  IF n = 0 THEN {<<>>}
  ELSE LET shorter == SeqsUpTo(S, n - 1) IN
         shorter \cup {Append(q, x) : q \in {t \in shorter : Len(t) = n - 1}, x \in S}

\* every history with one interface and language, and every interface and
\* language with the empty history
SetupInputs ==
  {[message |-> "hi", history |-> h, interface |-> "voice", language |-> "pl"] :
     h \in SeqsUpTo(SetupEntries, MaxHistory)}
    \cup {[message |-> "hi", history |-> <<>>, interface |-> f, language |-> l] :
            f \in SetupInterfaces, l \in SetupLanguages}

\* number of tool calls requested so far in a message sequence
RECURSIVE Requested(_)
Requested(ms) ==
  IF ms = <<>> THEN 0 ELSE Len(ms[1].tool_calls) + Requested(Tail(ms))

\* what the model may answer: a final answer, or a batch of tool requests
ModelResponses ==
  {[content |-> c, calls |-> <<>>] :
     c \in {CStr(""), CStr("Hello"), CList(<<>>), CList(<<"a", "b">>)}}
    \cup {[content |-> CStr(""), calls |-> q] :
            q \in SeqsUpTo(ToolCallNames, MaxToolCalls) \ {<<>>}}

\* exceptions a model invocation may end with
ModelErrors == {"rate limited"}

\* outcome of one HTTP post to a tool server: a 2xx JSON result, a transport
\* failure (httpx.RequestError) or a non-2xx status (httpx.HTTPStatusError)
ToolOutcomes ==
  { [kind |-> "ok", text |-> "data"],
    [kind |-> "transport", text |-> "All connection attempts failed"],
    [kind |-> "status", text |-> "Server error '500 Internal Server Error'"] }

\* str(result) of the JSON object {"content": text}
StrResult(text) == "{'content': '" \o text \o "'}"

\* the tool_calls list of a response: the model client gives each request an
\* id that is unique in the conversation
ToolCalls(names, k) ==
  [i \in 1..Len(names) |-> [name |-> names[i], id |-> 10 * k + i]]

\* ---------------------------------------------------------------- agent loop
\* _convert_mcp_tools_to_langchain
ConvertMcpToolsToLangchain(mcp_tools) ==
  [i \in 1..Len(mcp_tools) |->
     [type |-> "function", name |-> mcp_tools[i].name,
      description |-> mcp_tools[i].description]]

\* an empty tool list is bound as well
BindToolsAlways(mcp_tools) == Some(ConvertMcpToolsToLangchain(mcp_tools))

\* _call_model: the tools bound to the model for this invocation
BindTools(mcp_tools) ==
  IF mcp_tools # <<>> THEN Some(ConvertMcpToolsToLangchain(mcp_tools)) ELSE None

\* the router always continues to the tools node
ShouldContinueAlways(msgs) == "continue"

\* _should_continue
ShouldContinue(msgs) ==
  LET last_message == msgs[Len(msgs)] IN
    IF last_message.type = "ai" /\ last_message.tool_calls # <<>>
      THEN "continue" ELSE "end"

\* the lookup ignores the tool's name
FindOwnerFirst(mcp_tools, tool_name) ==
  IF mcp_tools # <<>> THEN Some(mcp_tools[1].server) ELSE None

\* _execute_tools, line 133: the first tool of that name decides the server
FindOwner(mcp_tools, tool_name) ==
  IF \E i \in 1..Len(mcp_tools) : mcp_tools[i].name = tool_name
    THEN LET i == CHOOSE j \in 1..Len(mcp_tools) :
                    /\ mcp_tools[j].name = tool_name
                    /\ \A k \in 1..(j - 1) : mcp_tools[k].name # tool_name
         IN Some(mcp_tools[i].server)
    ELSE None

\* `not server_name`
NoServer(o) == o = None \/ o = Some("")

\* _execute_tools, line 136
NotFoundMessage(tool_call) ==
  ToolMessage("Error: Tool " \o tool_call.name \o " not found", tool_call.id)

\* _execute_tools, line 142
SuccessMessage(tool_call, text) == ToolMessage(StrResult(text), tool_call.id)

\* the error text is dropped
ErrorMessageNoText(tool_call, e) == ToolMessage("Error: ", tool_call.id)

\* _execute_tools, lines 144-146
ErrorMessage(tool_call, e) == ToolMessage("Error: " \o e, tool_call.id)

NoToolOut == [kind |-> "none", text |-> "", id |-> 0, attempts |-> 0]

ToolReturned(text, id, n) == [kind |-> "returned", text |-> text, id |-> id, attempts |-> n]

ToolRaised(text, id, n) == [kind |-> "raised", text |-> text, id |-> id, attempts |-> n]

\* call_tool, line 68
UnknownServerText(server_name) == "Unknown MCP server: " \o server_name

\* every server name passes the check
ServerKnownAlways(server_name) == TRUE

\* call_tool, line 67
ServerKnown(server_name) == server_name \in ServerSet

\* call_tool, lines 79-80: the exception a failed post raises, which the
\* handler logs and raises again
ToolException(o) ==
  IF o.kind = "transport" THEN Exc("httpx.ConnectError", o.text)
  ELSE Exc("httpx.HTTPStatusError", o.text)

\* the retry wrapper of call_tool: retry_if_exception_type and
\* stop_after_attempt decide whether a failed attempt is followed by another
RetryCallTool(o, n) ==
  RetryDecision("network", MaxAttempts, n, ToolException(o)) = "sleep"

\* chat up to the first suspension of the graph run: build the message
\* sequence, or end in the outermost handler when a constructor raises
ChatStartWith(in) ==
  /\ pc = "idle"
  /\ input' = Some(in)
  /\ IF ConstructorRaises(ConvertHistoryToMessages(in.history))
       THEN /\ chatOut' = ChatExcept("validation error")
            /\ pc' = "returned"
            /\ UNCHANGED <<messages, initLen>>
       ELSE /\ messages' = InitialMessages(in)
            /\ initLen' = Len(InitialMessages(in))
            /\ pc' = "call_model"
            /\ UNCHANGED chatOut
  /\ UNCHANGED <<svcVars, wrapped, regVars, readVars, tcIdx, results, owner, attempt,
                 toolOut, modelCalls, boundTools, step>>

\* chat called with one of the requests explored through the whole loop
ChatStart == \E in \in ChatInputs : ChatStartWith(in)

\* chat called with any request of the larger set explored for its set-up
ChatSetUp == \E in \in SetupInputs : ChatStartWith(in)

\* str() of the GraphRecursionError of a run
RecursionText == "Recursion limit of 25 reached without hitting a stop condition."

\* the graph run starts a node whatever the step counter says
NodeMayStartAlways(n) == TRUE

\* the graph run starts a node only while the step counter has not passed
\* the recursion limit
NodeMayStart(n) == n <= RecursionLimit

\* CALL_MODEL up to the model request: read the registry, bind, invoke
CallModelStep ==
  /\ pc = "call_model"
  /\ NodeMayStart(step)
  /\ step' = step + 1
  /\ ReadTools
  /\ boundTools' = BindTools(GetAvailableTools(toolsCache, tools).result)
  /\ modelCalls' = modelCalls + 1
  /\ toolOut' = NoToolOut
  /\ pc' = "model_wait"
  /\ UNCHANGED <<svcVars, wrapped, connPc, connIdx, connected, gauge, connects, discAttempt,
                 discovered, warnings, toolsSeen, input,
                 messages, initLen, tcIdx, results, owner, attempt, chatOut>>

\* a model invocation, within the number of invocations explored
CallModel == modelCalls < MaxModelCalls /\ CallModelStep

\* the error of the run leaves chat
GraphRecursionRaises ==
  /\ pc = "call_model"
  /\ step > RecursionLimit
  /\ chatOut' = Raised(RecursionText)
  /\ pc' = "returned"
  /\ UNCHANGED <<svcVars, wrapped, regVars, readVars, input, messages, initLen, tcIdx,
                 results, owner, attempt, toolOut, modelCalls, boundTools, step>>

\* the graph run finds its step counter past the recursion limit when the
\* next node is due: it raises GraphRecursionError, chat's handler answers
GraphRecursion ==
  /\ pc = "call_model"
  /\ ~ NodeMayStart(step)
  /\ chatOut' = ChatExcept(RecursionText)
  /\ pc' = "returned"
  /\ UNCHANGED <<svcVars, wrapped, regVars, readVars, input, messages, initLen, tcIdx,
                 results, owner, attempt, toolOut, modelCalls, boundTools, step>>

\* CALL_MODEL resumed by the model's response: append it, then route
ModelReturnWith(r) ==
  /\ pc = "model_wait"
  /\ messages' =
       AddMessages(messages, <<AIMessage(r.content, ToolCalls(r.calls, modelCalls))>>)
  /\ IF ~ NodeMayStart(step)
       THEN /\ chatOut' = ChatExcept(RecursionText)
            /\ pc' = "returned" /\ tcIdx' = 0 /\ step' = step
       ELSE /\ chatOut' = chatOut
            /\ IF ShouldContinue(messages') = "continue"
                 THEN pc' = "execute_tools" /\ tcIdx' = 1 /\ step' = step + 1
                 ELSE pc' = "graph_end" /\ tcIdx' = 0 /\ step' = step
  /\ UNCHANGED <<svcVars, wrapped, regVars, readVars, input, initLen, results, owner,
                 attempt, toolOut, modelCalls, boundTools>>

\* a response of the model, within the number of tool calls explored
ModelReturn ==
  \E r \in ModelResponses :
    /\ pc = "model_wait"
    /\ Requested(messages) + Len(r.calls) <= MaxToolCalls
    /\ ModelReturnWith(r)

\* the model invocation raises: the graph run raises, chat's handler answers
ModelRaise ==
  \E e \in ModelErrors :
    /\ pc = "model_wait"
    /\ chatOut' = ChatExcept(e)
    /\ pc' = "returned"
    /\ UNCHANGED <<svcVars, wrapped, regVars, readVars, input, messages, initLen, tcIdx, results,
                   owner, attempt, toolOut, modelCalls, boundTools, step>>

\* a call naming an unknown tool is skipped without a result
AppendResultSkipNotFound(m) ==
  LET calls == messages[Len(messages)].tool_calls
      rs == IF m = NotFoundMessage(calls[tcIdx]) THEN results ELSE Append(results, m)
  IN IF tcIdx < Len(calls)
       THEN /\ results' = rs
            /\ tcIdx' = tcIdx + 1
            /\ pc' = "execute_tools"
            /\ UNCHANGED messages
       ELSE /\ messages' = AddMessages(messages, rs)
            /\ results' = <<>>
            /\ tcIdx' = 0
            /\ pc' = "call_model"

\* the batch ends at its first result
AppendResultBreak(m) ==
  /\ messages' = AddMessages(messages, Append(results, m))
  /\ results' = <<>>
  /\ tcIdx' = 0
  /\ pc' = "call_model"

\* _execute_tools: `results.append(m)`, then the next call of the batch or,
\* after the last one, the return that appends the results to the messages
AppendResult(m) ==
  LET calls == messages[Len(messages)].tool_calls IN
    IF tcIdx < Len(calls)
      THEN /\ results' = Append(results, m)
           /\ tcIdx' = tcIdx + 1
           /\ pc' = "execute_tools"
           /\ UNCHANGED messages
      ELSE /\ messages' = AddMessages(messages, Append(results, m))
           /\ results' = <<>>
           /\ tcIdx' = 0
           /\ pc' = "call_model"

\* EXECUTE_TOOLS up to the next suspension: the owner lookup of one tool
\* call, and call_tool up to its HTTP post
ToolDispatch ==
  /\ pc = "execute_tools"
  /\ LET last_message == messages[Len(messages)] IN
       IF last_message.type # "ai" \/ last_message.tool_calls = <<>>
         THEN /\ messages' = AddMessages(messages, <<>>)
              /\ pc' = "call_model"
              /\ tcIdx' = 0
              /\ UNCHANGED <<tools, toolsCache, readVars, results, owner, attempt,
                             toolOut>>
         ELSE LET tool_call == last_message.tool_calls[tcIdx]
                  server_name == FindOwner(GetAvailableTools(toolsCache, tools).result,
                                           tool_call.name)
              IN /\ ReadTools
                 /\ IF NoServer(server_name)
                      THEN /\ AppendResult(NotFoundMessage(tool_call))
                           /\ toolOut' = NoToolOut
                           /\ UNCHANGED <<owner, attempt>>
                      ELSE IF ~ ServerKnown(server_name[1])
                        THEN /\ AppendResult(ErrorMessage(tool_call,
                                  UnknownServerText(server_name[1])))
                             /\ toolOut' = ToolRaised(UnknownServerText(server_name[1]),
                                                      tool_call.id, 1)
                             /\ UNCHANGED <<owner, attempt>>
                        ELSE /\ owner' = server_name
                             /\ attempt' = 1
                             /\ toolOut' = NoToolOut
                             /\ pc' = "tool_wait"
                             /\ UNCHANGED <<messages, tcIdx, results>>
  /\ UNCHANGED <<svcVars, wrapped, connPc, connIdx, connected, gauge, connects, discAttempt,
                 discovered, warnings, toolsSeen, input,
                 initLen, modelCalls, boundTools, chatOut, step>>

\* EXECUTE_TOOLS resumed by the answer of the tool server: call_tool returns,
\* is retried (a new post), or raises into the handler of _execute_tools
ToolReturnWith(o) ==
  /\ pc = "tool_wait"
  /\ LET tool_call == messages[Len(messages)].tool_calls[tcIdx] IN
       IF o.kind = "ok"
         THEN /\ AppendResult(SuccessMessage(tool_call, o.text))
              /\ toolOut' = ToolReturned(o.text, tool_call.id, attempt)
              /\ owner' = None
              /\ attempt' = 0
         ELSE IF RetryCallTool(o, attempt)
           THEN /\ attempt' = attempt + 1
                /\ UNCHANGED <<pc, messages, tcIdx, results, owner, toolOut>>
           ELSE /\ AppendResult(ErrorMessage(tool_call, o.text))
                /\ toolOut' = ToolRaised(o.text, tool_call.id, attempt)
                /\ owner' = None
                /\ attempt' = 0
  /\ UNCHANGED <<svcVars, wrapped, regVars, readVars, input, initLen, modelCalls,
                 boundTools, chatOut, step>>

ToolReturn == \E o \in ToolOutcomes : ToolReturnWith(o)

\* ---- a whole graph run: the model and the tool servers of a run that goes
\* on for as long as the graph lets it
\* the model answers, or asks for one call of a tool
LoopResponses ==
  { [content |-> CStr("Hello"), calls |-> <<>>],
    [content |-> CStr(""), calls |-> <<>>],
    [content |-> CStr(""), calls |-> <<"read_file">>] }

\* the tool servers answer every post
LoopToolOutcomes == {o \in ToolOutcomes : o.kind = "ok"}

ModelReturnLoop == \E r \in LoopResponses : ModelReturnWith(r)

ToolReturnLoop == \E o \in LoopToolOutcomes : ToolReturnWith(o)

\* lifespan: requests are served once the start-up connect_all is over
ChatStartLoop == connects = 1 /\ connPc = "idle" /\ ChatStart

\* the graph run returned: chat extracts the final response
ChatReturn ==
  /\ pc = "graph_end"
  /\ chatOut' = Returned(FinalResponse(messages))
  /\ pc' = "returned"
  /\ UNCHANGED <<svcVars, wrapped, regVars, readVars, input, messages, initLen, tcIdx, results,
                 owner, attempt, toolOut, modelCalls, boundTools, step>>

\* the service's lifespan start-up: connect_all is invoked once
Lifespan == connects = 0 /\ ConnectAllStart

\* a get_available_tools call made by some chat request, seen from the
\* registry alone
GetAvailableToolsCall ==
  /\ ReadTools
  /\ UNCHANGED <<svcVars, wrapped, connPc, connIdx, connected, gauge, connects, discAttempt,
                 discovered, warnings, toolsSeen, chatVars>>

\* ------------------------------------------------- direct wrapped calls
\* the outcome a caller of a wrapped operation sees
NoExc == Exc("", "")

NotReturned == [kind |-> "none", result |-> "", exc |-> NoExc]

WrapperReturned(v) == [kind |-> "returned", result |-> v, exc |-> NoExc]

WrapperRaised(e) == [kind |-> "raised", result |-> "", exc |-> e]

NotCalled ==
  [pc |-> "idle", config |-> None, calls |-> 0, posts |-> 0, errors |-> <<>>,
   sleeps |-> <<>>, metrics |-> <<>>, out |-> NotReturned]

\* exceptions a wrapped function may raise
FuncExceptions ==
  { Exc("ConnectionError", "Network error"),
    Exc("TimeoutError", "Always fails"),
    Exc("httpx.ConnectError", "Network failure"),
    Exc("httpx.ReadTimeout", "Request timeout"),
    Exc("httpx.HTTPStatusError", "Error"),
    Exc("ValueError", "Not a network error"),
    Exc("anthropic.APITimeoutError", "Request timed out."),
    Exc("anthropic.RateLimitError", "Rate limited") }

\* the wrapped calls explored: a function decorated with either decorator,
\* sync or async, with some max_attempts; and call_tool called directly
WrappedCalls ==
  {[op |-> "func", policy |-> p, max_attempts |-> n, mode |-> m, server |-> ""] :
     p \in {"network", "anthropic"}, n \in 1..MaxAttemptsArg, m \in {"sync", "async"}}
    \cup {[op |-> "call_tool", policy |-> "network", max_attempts |-> MaxAttempts,
            mode |-> "async", server |-> sv] : sv \in ServerSet \cup {"unknown"}}

\* how one run of the operation's body may end once it is under way
OpOutcomes(c) ==
  IF c.op = "call_tool"
    THEN {IF o.kind = "ok" THEN WrapperReturned(o.text)
          ELSE WrapperRaised(ToolException(o)) : o \in ToolOutcomes}
    ELSE {WrapperReturned("success")} \cup {WrapperRaised(e) : e \in FuncExceptions}

\* call_tool, lines 94-97 (finally): the counter labelled by server, tool
\* and status is incremented and the latency observed, once the try block
\* has been entered; a wrapped plain function records nothing
RecordMetrics(w, status) ==
  IF w.config[1].op = "call_tool"
    THEN [w EXCEPT !.metrics = Append(@, [server |-> w.config[1].server,
                                          status |-> status])]
    ELSE w

\* the wrapper after an attempt (the w.calls-th) that raised e
AfterRaise(w, e) ==
  LET c == w.config[1]
      d == RetryDecision(c.policy, c.max_attempts, w.calls, e)
  IN [w EXCEPT !.errors = Append(@, e),
               !.sleeps = IF d = "sleep"
                            THEN Append(@, WaitExponential(Multiplier(c.policy),
                                             MinWaitSeconds(c.policy),
                                             MaxWaitSeconds(c.policy), w.calls))
                            ELSE @,
               !.pc = IF d = "sleep" THEN "invoke" ELSE "done",
               !.out = CASE d = "sleep" -> @
                         [] d = "reraise" -> WrapperRaised(Reraise(e))
                         [] OTHER -> WrapperRaised(e)]

\* a caller calls the decorated function
WrappedCall ==
  \E c \in WrappedCalls :
    /\ wrapped.pc = "idle"
    /\ wrapped' = [wrapped EXCEPT !.pc = "invoke", !.config = Some(c)]
    /\ UNCHANGED <<regVars, chatVars, readVars, svcVars>>

\* the wrapper invokes the operation: call_tool raises at once for an
\* unknown server (line 68, before its try block) and otherwise sends its
\* post; a function starts running
Invoke ==
  /\ wrapped.pc = "invoke"
  /\ LET c == wrapped.config[1]
         w == [wrapped EXCEPT !.calls = @ + 1]
     IN wrapped' =
          IF c.op = "call_tool" /\ ~ ServerKnown(c.server)
            THEN AfterRaise(w, Exc("ValueError", UnknownServerText(c.server)))
          ELSE IF c.op = "call_tool"
            THEN [w EXCEPT !.posts = @ + 1, !.pc = "await"]
          ELSE [w EXCEPT !.pc = "await"]
  /\ UNCHANGED <<regVars, chatVars, readVars, svcVars>>

\* the operation returns: the wrapper returns its result
OpReturn ==
  /\ wrapped.pc = "await"
  /\ \E r \in OpOutcomes(wrapped.config[1]) :
       /\ r.kind = "returned"
       /\ wrapped' = [RecordMetrics(wrapped, "success") EXCEPT !.pc = "done", !.out = r]
  /\ UNCHANGED <<regVars, chatVars, readVars, svcVars>>

\* the operation raises: the wrapper raises or goes on to another attempt
OpRaise ==
  /\ wrapped.pc = "await"
  /\ \E r \in OpOutcomes(wrapped.config[1]) :
       /\ r.kind = "raised"
       /\ wrapped' = AfterRaise(RecordMetrics(wrapped, "error"), r.exc)
  /\ UNCHANGED <<regVars, chatVars, readVars, svcVars>>

\* ------------------------------------------------------------ session store
\* add_message, line 31: LTRIM key -50 -1
TrimStart == -50

TrimStop == -1

\* stop=stop_after_attempt(3) on the methods of StateManager
StoreMaxAttempts == 3

\* retry=retry_if_exception_type((redis.ConnectionError, redis.TimeoutError))
StoreRetryableClasses == {"redis.ConnectionError", "redis.TimeoutError"}

\* the retry wrapper of a StateManager method, after an attempt that raised e
StoreRetryDecision(attempt_number, e) ==
  IF Bases(e.type) \cap StoreRetryableClasses = {} THEN "raise"
  ELSE IF StopAfterAttempt(attempt_number, StoreMaxAttempts) THEN "reraise"
  ELSE "sleep"

\* json.dumps of the message dict: the stored list element
JsonDumps(message) == [json |-> message]

\* json.loads of a stored list element
JsonLoads(element) == element.json

\* RPUSH key value
Rpush(list, value) == Append(list, value)

\* a Redis list index as an offset from the head: negative counts from the tail
RedisIndex(list, i) == IF i < 0 THEN Len(list) + i ELSE i

\* the elements from start to stop, both inclusive, as Redis selects them
RedisRange(list, start, stop) ==
  LET s == Max2(RedisIndex(list, start), 0)
      e == Min2(RedisIndex(list, stop), Len(list) - 1)
  IN IF s > e THEN <<>> ELSE SubSeq(list, s + 1, e + 1)

\* the trim keeps the head of the list
LtrimHead(list, start, stop) == RedisRange(list, 0, (-start) - 1)

\* LTRIM key start stop
Ltrim(list, start, stop) == RedisRange(list, start, stop)

\* LRANGE key start stop
Lrange(list, start, stop) == RedisRange(list, start, stop)

\* how a Redis command may end: a reply, a connection error before the
\* server ran the command, or a timeout of the reply of a command it ran
RedisOutcomes ==
  { [error |-> "", applied |-> TRUE],
    [error |-> "redis.ConnectionError", applied |-> FALSE],
    [error |-> "redis.TimeoutError", applied |-> TRUE] }

StorePending == [kind |-> "none", value |-> <<>>, error |-> ""]

StoreReturned(v) == [kind |-> "returned", value |-> v, error |-> ""]

StoreRaised(t) == [kind |-> "raised", value |-> <<>>, error |-> t]

\* no StateManager call was made yet
NoStoreCall ==
  [op |-> "none", role |-> "", content |-> "", pc |-> "idle", attempt |-> 0,
   n |-> 0, applied |-> 0, out |-> StorePending]

\* the first command of a method body
FirstCommand(op) == IF op = "add_message" THEN "rpush" ELSE "lrange"

\* a StateManager method is called: its wrapper makes the first attempt
StoreCallStart(op, role, content) ==
  /\ storeCall.pc = "idle"
  /\ storeCall' = [op |-> op, role |-> role, content |-> content,
                   pc |-> FirstCommand(op), attempt |-> 1, n |-> storeCall.n + 1,
                   applied |-> 0, out |-> StorePending]

\* the wrapper after a command of the body raised: the whole body again, or
\* the exception leaves the call
AfterStoreError(c, t) ==
  IF StoreRetryDecision(c.attempt, Exc(t, "")) = "sleep"
    THEN [c EXCEPT !.attempt = @ + 1, !.pc = FirstCommand(c.op)]
    ELSE [c EXCEPT !.pc = "idle", !.out = StoreRaised(t)]

\* a command of the call in flight may end with an error if the call was hit
\* by one before or the number of such calls explored is not used up
FaultAllowed(o) == o.error # "" => (storeCall.attempt > 1 \/ faults < MaxFaultyCalls)

FaultsAfter(o) == IF o.error # "" /\ storeCall.attempt = 1 THEN faults + 1 ELSE faults

\* add_message, line 29
StoredMessage(c) == [role |-> c.role, content |-> c.content]

\* add_message, line 30: the push
RedisRpush ==
  /\ storeCall.pc = "rpush"
  /\ \E o \in RedisOutcomes :
       /\ FaultAllowed(o)
       /\ faults' = FaultsAfter(o)
       /\ session' = IF o.applied
                       THEN Rpush(session, JsonDumps(StoredMessage(storeCall)))
                       ELSE session
       /\ pushLog' = IF o.applied
                       THEN Append(pushLog, JsonDumps(StoredMessage(storeCall)))
                       ELSE pushLog
       /\ LET c == [storeCall EXCEPT !.applied = IF o.applied THEN @ + 1 ELSE @] IN
            storeCall' = IF o.error = "" THEN [c EXCEPT !.pc = "ltrim"]
                         ELSE AfterStoreError(c, o.error)
  /\ UNCHANGED <<regVars, chatVars, readVars, wrapped, handler, health>>

\* add_message, line 31: the trim, after which the method returns
RedisLtrim ==
  /\ storeCall.pc = "ltrim"
  /\ \E o \in RedisOutcomes :
       /\ FaultAllowed(o)
       /\ faults' = FaultsAfter(o)
       /\ session' = IF o.applied THEN Ltrim(session, TrimStart, TrimStop) ELSE session
       /\ storeCall' = IF o.error = ""
                         THEN [storeCall EXCEPT !.pc = "idle", !.out = StoreReturned(None)]
                         ELSE AfterStoreError(storeCall, o.error)
  /\ UNCHANGED <<regVars, chatVars, readVars, wrapped, handler, health, pushLog>>

\* get_conversation, lines 19-20: the whole list, each element decoded
RedisLrange ==
  /\ storeCall.pc = "lrange"
  /\ \E o \in RedisOutcomes :
       /\ FaultAllowed(o)
       /\ faults' = FaultsAfter(o)
       /\ storeCall' =
            IF o.error = ""
              THEN LET elements == Lrange(session, 0, -1) IN
                     [storeCall EXCEPT
                        !.pc = "idle",
                        !.out = StoreReturned([i \in 1..Len(elements) |->
                                                 JsonLoads(elements[i])])]
              ELSE AfterStoreError(storeCall, o.error)
  /\ UNCHANGED <<regVars, chatVars, readVars, wrapped, handler, health, session, pushLog>>

\* the messages explored for direct calls: the n-th call stores the text n,
\* for the user and the assistant in turn
CallRole(n) == IF n % 2 = 1 THEN "user" ELSE "assistant"

\* add_message called by some request on the session
AddMessageCall ==
  /\ handler.pc = "idle"
  /\ storeCall.n < MaxStoreCalls
  /\ StoreCallStart("add_message", CallRole(storeCall.n + 1), ToString(storeCall.n + 1))
  /\ UNCHANGED <<regVars, chatVars, readVars, wrapped, handler, health, session, pushLog,
                 faults>>

\* --------------------------------------------------------------- the handler
\* the /chat handler is not running
HandlerIdle ==
  [pc |-> "idle", message |-> "", before |-> <<>>, history |-> <<>>, response |-> "",
   status |-> 0]

\* the request bodies explored: a new text, and the text of a stored message
RequestMessages == {"hi", "1"}

\* a decoded history entry as chat receives it: a dict with a str content
HistoryEntry(m) == Entry(m.role, CStr(m.content))

\* main.py, lines 135-142: the arguments of agent.chat (ChatRequest's
\* defaults for interface and language)
AgentRequest(h) ==
  [message |-> h.message,
   history |-> [i \in 1..Len(h.history) |-> HistoryEntry(h.history[i])],
   interface |-> "api", language |-> "en"]

\* line 132: the handler calls get_conversation
HandlerStart ==
  /\ handler.pc = "idle"
  /\ pc = "idle"
  /\ \E m \in RequestMessages :
       handler' = [HandlerIdle EXCEPT !.pc = "get_conversation", !.message = m,
                                      !.before = session]
  /\ StoreCallStart("get_conversation", "", "")
  /\ UNCHANGED <<regVars, chatVars, readVars, wrapped, health, session, pushLog, faults>>

\* lines 159-172: an exception of a StateManager call becomes a 500 answer
HandlerFailed == [handler EXCEPT !.pc = "done", !.status = 500]

\* line 133: the history is kept, then the user message is stored
HandlerAddUser ==
  /\ handler.pc = "get_conversation"
  /\ storeCall.pc = "idle"
  /\ IF storeCall.out.kind = "raised"
       THEN handler' = HandlerFailed /\ UNCHANGED storeCall
       ELSE /\ handler' = [handler EXCEPT !.pc = "add_user",
                                          !.history = storeCall.out.value]
            /\ StoreCallStart("add_message", "user", handler.message)
  /\ UNCHANGED <<regVars, chatVars, readVars, wrapped, health, session, pushLog, faults>>

\* lines 135-142: agent.chat is awaited
HandlerCallAgent ==
  /\ handler.pc = "add_user"
  /\ storeCall.pc = "idle"
  /\ IF storeCall.out.kind = "raised"
       THEN /\ handler' = HandlerFailed
            /\ UNCHANGED <<regVars, chatVars, readVars, wrapped, health, storeVars>>
       ELSE /\ handler' = [handler EXCEPT !.pc = "agent"]
            /\ pc = "idle"
            /\ input' = Some(AgentRequest(handler))
            /\ IF ConstructorRaises(ConvertHistoryToMessages(AgentRequest(handler).history))
                 THEN /\ chatOut' = ChatExcept("validation error")
                      /\ pc' = "returned"
                      /\ UNCHANGED <<messages, initLen>>
                 ELSE /\ messages' = InitialMessages(AgentRequest(handler))
                      /\ initLen' = Len(InitialMessages(AgentRequest(handler)))
                      /\ pc' = "call_model"
                      /\ UNCHANGED chatOut
            /\ UNCHANGED <<regVars, readVars, wrapped, health, storeVars, tcIdx, results,
                           owner, attempt, toolOut, modelCalls, boundTools, step>>

\* line 144: chat returned, the reply is stored
HandlerAddAssistant ==
  /\ handler.pc = "agent"
  /\ pc = "returned"
  /\ IF chatOut.kind = "raised"
       THEN handler' = HandlerFailed /\ UNCHANGED storeCall
       ELSE /\ handler' = [handler EXCEPT !.pc = "add_assistant",
                                          !.response = chatOut.value]
            /\ StoreCallStart("add_message", "assistant", chatOut.value)
  /\ UNCHANGED <<regVars, chatVars, readVars, wrapped, health, session, pushLog, faults>>

\* line 157: the answer
HandlerReturn ==
  /\ handler.pc = "add_assistant"
  /\ storeCall.pc = "idle"
  /\ handler' = IF storeCall.out.kind = "raised" THEN HandlerFailed
                ELSE [handler EXCEPT !.pc = "done", !.status = 200]
  /\ UNCHANGED <<regVars, chatVars, readVars, wrapped, health, storeVars>>

\* an earlier request left a message in the session
PriorMessage == storeCall.n < MaxPriorMessages /\ AddMessageCall

\* -------------------------------------------------------------- check_health
\* how state_manager.redis.ping() may end: a reply ("") or one of the two
\* exception classes the check catches
PingOutcomes == {"", "redis.ConnectionError", "redis.TimeoutError"}

\* line 57: len(mcp_manager.tools.get(server_name, []))
ToolCount(registry, server_name) ==
  IF DictHas(registry, server_name) THEN Len(DictGet(registry, server_name)) ELSE 0

\* lines 56-68: the status of every configured server
McpStatus(servers, registry) ==
  [i \in 1..Len(servers) |->
     IF ToolCount(registry, servers[i]) > 0
       THEN [server |-> servers[i], status |-> "healthy",
             tool_count |-> ToolCount(registry, servers[i])]
       ELSE [server |-> servers[i], status |-> "unhealthy", tool_count |-> 0]]

\* lines 53, 63: mcp_healthy_count
McpHealthyCount(servers, registry) ==
  Cardinality({i \in 1..Len(servers) : ToolCount(registry, servers[i]) > 0})

\* lines 71-78
McpComponentStatus(mcp_healthy_count, mcp_total_count) ==
  IF mcp_total_count = 0 THEN "healthy"
  ELSE IF mcp_healthy_count = mcp_total_count THEN "healthy"
  ELSE IF mcp_healthy_count > 0 THEN "degraded"
  ELSE "unhealthy"

\* the overall status repeats the status of the tool-server component
OverallStatusOfComponent(redis_healthy, mcp_healthy_count, mcp_total_count) ==
  IF ~ redis_healthy THEN "unhealthy"
  ELSE McpComponentStatus(mcp_healthy_count, mcp_total_count)

\* lines 27-31, 88-91
OverallStatus(redis_healthy, mcp_healthy_count, mcp_total_count) ==
  IF ~ redis_healthy THEN "unhealthy"
  ELSE IF mcp_total_count > 0 /\ mcp_healthy_count < mcp_total_count THEN "degraded"
  ELSE "healthy"

\* the dictionary check_health returns, with the ping outcome and the
\* manager it was computed from
HealthStatus(ping, servers, registry) ==
  LET redis_healthy == ping = ""
      mcp_healthy_count == McpHealthyCount(servers, registry)
      mcp_total_count == Len(servers)
  IN [status |-> OverallStatus(redis_healthy, mcp_healthy_count, mcp_total_count),
      redis |-> IF redis_healthy THEN "healthy" ELSE "unhealthy",
      mcp_servers |-> [status |-> McpComponentStatus(mcp_healthy_count, mcp_total_count),
                       healthy |-> mcp_healthy_count,
                       total |-> mcp_total_count,
                       servers |-> McpStatus(servers, registry)],
      ping |-> ping, of_servers |-> servers, of_tools |-> registry]

\* the managers check_health is called with: the service's, or one with no
\* server configured
HealthManagers ==
  {[servers |-> Servers, tools |-> tools], [servers |-> <<>>, tools |-> <<>>]}

\* check_health: it has no suspension point
CheckHealth ==
  /\ \E ping \in PingOutcomes, m \in HealthManagers :
       health' = Some(HealthStatus(ping, m.servers, m.tools))
  /\ UNCHANGED <<regVars, chatVars, readVars, wrapped, storeVars, handler>>

\* ------------------------------------------------------------ specification
Init ==
  /\ tools = <<>>
  /\ toolsCache = None
  /\ connPc = "idle"
  /\ connIdx = 0
  /\ connected = 0
  /\ gauge = 0
  /\ connects = 0
  /\ discAttempt = 0
  /\ discovered = <<>>
  /\ warnings = 0
  /\ toolsSeen = {tools}
  /\ pc = "idle"
  /\ input = None
  /\ messages = <<>>
  /\ initLen = 0
  /\ tcIdx = 0
  /\ results = <<>>
  /\ owner = None
  /\ attempt = 0
  /\ toolOut = NoToolOut
  /\ modelCalls = 0
  /\ boundTools = None
  /\ chatOut = NoOutcome
  /\ lastRead = None
  /\ prevRead = None
  /\ connBetween = FALSE
  /\ changedBetween = FALSE
  /\ connSinceRead = FALSE
  /\ changedSinceRead = FALSE
  /\ readAfterConnect = FALSE
  /\ wrapped = NotCalled
  /\ step = 0
  /\ session = <<>>
  /\ pushLog = <<>>
  /\ storeCall = NoStoreCall
  /\ faults = 0
  /\ handler = HandlerIdle
  /\ health = None

\* the service: its start-up connect_all and one chat request, interleaved
\* at their suspension points
Next ==
  \/ Lifespan
  \/ DiscoverReturn
  \/ ChatStart
  \/ CallModel
  \/ ModelReturn
  \/ ModelRaise
  \/ ToolDispatch
  \/ ToolReturn
  \/ ChatReturn

Spec == Init /\ [][Next]_vars

\* the registry alone: connect_all invocations and get_available_tools
\* calls in every interleaving
NextRegistry ==
  \/ ConnectAllStart
  \/ DiscoverReturn
  \/ GetAvailableToolsCall

SpecRegistry == Init /\ [][NextRegistry]_vars

\* a retry-wrapped operation called directly, as the retry policy sees it
NextRetry ==
  \/ WrappedCall
  \/ Invoke
  \/ OpReturn
  \/ OpRaise

SpecRetry == Init /\ [][NextRetry]_vars

\* the session store alone: add_message calls, one after the other, with
\* Redis commands that may fail
NextStore ==
  \/ AddMessageCall
  \/ RedisRpush
  \/ RedisLtrim

SpecStore == Init /\ [][NextStore]_vars

\* the health check against a registry that connect_all invocations change
NextHealth ==
  \/ ConnectAllStart
  \/ DiscoverReturn
  \/ CheckHealth

SpecHealth == Init /\ [][NextHealth]_vars

\* one chat request served after start-up, run until the graph run ends
NextLoop ==
  \/ Lifespan
  \/ DiscoverReturn
  \/ ChatStartLoop
  \/ CallModelStep
  \/ ModelReturnLoop
  \/ ModelRaise
  \/ ToolDispatch
  \/ ToolReturnLoop
  \/ ChatReturn
  \/ GraphRecursion

SpecLoop == Init /\ [][NextLoop]_vars

\* the same, where the event loop resumes a task that can run and every
\* model call, tool call and discovery request returns or fails
SpecLoopFair ==
  /\ SpecLoop
  /\ WF_vars(CallModelStep \/ ToolDispatch \/ ChatReturn \/ GraphRecursion)
  /\ WF_vars(ModelReturnLoop \/ ModelRaise)
  /\ WF_vars(ToolReturnLoop)
  /\ WF_vars(DiscoverReturn)

\* one /chat request on a session that holds a few messages, handled with
\* no other request on that session, with Redis commands that may fail
NextHandler ==
  \/ PriorMessage
  \/ HandlerStart
  \/ RedisLrange
  \/ HandlerAddUser
  \/ RedisRpush
  \/ RedisLtrim
  \/ HandlerCallAgent
  \/ CallModelStep
  \/ ModelReturnLoop
  \/ ModelRaise
  \/ ToolDispatch
  \/ ChatReturn
  \/ GraphRecursion
  \/ HandlerAddAssistant
  \/ HandlerReturn

SpecHandler == Init /\ [][NextHandler]_vars

\* the set-up of a chat request alone, over many requests
NextSetup == ChatSetUp

SpecSetup == Init /\ [][NextSetup]_vars

\* ================================================================ properties
LastMessage == messages[Len(messages)]

\* chat ended in its outermost handler: the history mapping raised (no message
\* sequence was built) or a model invocation raised (no response was appended)
EndedByException ==
  /\ pc = "returned"
  /\ \/ messages = <<>>
     \/ LastMessage.type # "ai"

\* C1: chat never raises; whenever an exception ends the history mapping or
\* a model invocation, chat returns the fixed apology string instead.
C1_ChatNeverRaises ==
  /\ chatOut.kind # "raised"
  /\ pc = "returned" => chatOut.kind = "returned"
  /\ EndedByException => chatOut = Returned(ApologyText)

\* the second model invocation, made after a tool batch, raised
C1_Witness ==
  /\ EndedByException
  /\ modelCalls = 2
  /\ LastMessage.type = "tool"
  /\ chatOut = Returned(ApologyText)

Calls(p) == messages[p].tool_calls

\* the batch requested by message p is answered: one tool message per call,
\* in request order, each carrying its call's id, and no further one
BatchAnswered(p) ==
  LET n == Len(Calls(p)) IN
    /\ Len(messages) >= p + n
    /\ \A i \in 1..n :
         /\ messages[p + i].type = "tool"
         /\ messages[p + i].tool_call_id = Calls(p)[i].id
    /\ Len(messages) > p + n => messages[p + n + 1].type # "tool"

\* the batch requested by message p is being executed: the calls before the
\* current one each have their result, in order
BatchInProgress(p) ==
  /\ pc \in {"execute_tools", "tool_wait"}
  /\ tcIdx \in 1..Len(Calls(p))
  /\ Len(results) = tcIdx - 1
  /\ \A i \in 1..Len(results) :
       /\ results[i].type = "tool"
       /\ results[i].tool_call_id = Calls(p)[i].id

\* C2: every batch of tool calls gets exactly one tool-result message per
\* requested call, in request order and tagged with the call's id, whatever
\* the outcome of each call; a failed call does not stop the rest.
C2_OneResultPerCall ==
  \A p \in 1..Len(messages) :
    (messages[p].type = "ai" /\ Calls(p) # <<>>) =>
      IF p = Len(messages) THEN BatchInProgress(p) ELSE BatchAnswered(p)

\* a batch of two whose first call failed and whose second call succeeded
C2_Witness ==
  \E p \in 1..Len(messages) :
    /\ messages[p].type = "ai"
    /\ Len(Calls(p)) = 2
    /\ Len(messages) >= p + 2
    /\ messages[p + 1] = ToolMessage("Error: All connection attempts failed", Calls(p)[1].id)
    /\ messages[p + 2] = ToolMessage(StrResult("data"), Calls(p)[2].id)

\* the registry snapshot a get_available_tools call would return now
Snapshot == GetAvailableTools(toolsCache, tools).result

\* a step of _execute_tools that dispatches the current tool call
DispatchStep == pc = "execute_tools" /\ (pc' # pc \/ tcIdx' # tcIdx)

CurrentCall == LastMessage.tool_calls[tcIdx]

\* the tool-result message produced last
LatestResult == IF results # <<>> THEN results[Len(results)] ELSE LastMessage

\* C3: a requested tool whose name no tool of the snapshot read at dispatch
\* time has yields the message "Error: Tool {name} not found" with the
\* call's id; call_tool is not invoked (no post) and nothing is raised.
C3_UnknownToolNotFound ==
  [][ (DispatchStep /\ ~ \E i \in 1..Len(Snapshot) : Snapshot[i].name = CurrentCall.name)
        => /\ pc' \in {"execute_tools", "call_model"}
           /\ attempt' = 0
           /\ toolOut' = NoToolOut
           /\ chatOut' = NoOutcome
           /\ LatestResult' =
                ToolMessage("Error: Tool " \o CurrentCall.name \o " not found",
                            CurrentCall.id) ]_vars

\* the first call of a batch named a tool the non-empty snapshot does not hold
C3_Witness ==
  /\ pc = "execute_tools"
  /\ tcIdx = 2
  /\ results = <<ToolMessage("Error: Tool nope not found", LastMessage.tool_calls[1].id)>>
  /\ IsSome(lastRead)
  /\ lastRead[1] # <<>>

\* C4: a call_tool invocation that raises (also after its retries are
\* exhausted) yields the message "Error: {exception text}" with the call's
\* id; nothing propagates and after the batch the loop is back in CALL_MODEL.
C4_ToolExceptionBecomesResult ==
  toolOut.kind = "raised" =>
    /\ pc \in {"execute_tools", "call_model"}
    /\ chatOut = NoOutcome
    /\ LatestResult = ToolMessage("Error: " \o toolOut.text, toolOut.id)
    /\ results = <<>> => pc = "call_model"

\* the last call of a batch raised after three attempts
C4_Witness ==
  /\ toolOut.kind = "raised"
  /\ toolOut.attempts = MaxAttempts
  /\ pc = "call_model"
  /\ LastMessage = ToolMessage("Error: All connection attempts failed", toolOut.id)

\* the model's first response, once it is appended
FirstResponse == messages[initLen + 1]

FirstIsFinal ==
  /\ initLen > 0
  /\ Len(messages) > initLen
  /\ FirstResponse.tool_calls = <<>>

ToolMessagePositions == {p \in (initLen + 1)..Len(messages) : messages[p].type = "tool"}

RECURSIVE ConcatBlocks(_)
ConcatBlocks(bs) == IF bs = <<>> THEN "" ELSE bs[1] \o ConcatBlocks(Tail(bs))

\* the text of a response: the string itself, or the text blocks joined
TextOf(c) == IF c.kind = "str" THEN c.text ELSE ConcatBlocks(c.blocks)

\* C5 as stated: when the first response requests no tool, chat makes one
\* model invocation, executes no tool and returns the response's text
\* unchanged.
C5_ReturnsTextUnchanged ==
  (pc = "returned" /\ FirstIsFinal) =>
    /\ modelCalls = 1
    /\ ToolMessagePositions = {}
    /\ chatOut = Returned(TextOf(FirstResponse.content))

\* C5 amended: when the first response requests no tool, chat makes one model
\* invocation, executes no tool and returns the response's text unchanged if
\* its content is a non-empty string, the string form of the content if it
\* is a non-empty list of blocks, and the fixed could-not-generate string if
\* the content is empty.
C5_FirstResponseFinal ==
  FirstIsFinal =>
    /\ modelCalls = 1
    /\ ToolMessagePositions = {}
    /\ toolOut = NoToolOut
    /\ attempt = 0
    /\ pc \in {"graph_end", "returned"}
    /\ pc = "returned" =>
         LET c == FirstResponse.content IN
           chatOut = Returned(CASE c.kind = "str" /\ c.text # "" -> c.text
                                [] c.kind = "list" /\ c.blocks # <<>> -> PyStr(c)
                                [] OTHER -> FallbackText)

\* the first response was the final answer "Hello" and chat returned it
C5_Witness ==
  /\ pc = "returned"
  /\ FirstIsFinal
  /\ FirstResponse.content = CStr("Hello")
  /\ chatOut = Returned("Hello")

ResponsePositions == {p \in (initLen + 1)..Len(messages) : messages[p].type = "ai"}

Min(S) == CHOOSE x \in S : \A y \in S : x <= y

\* C6: when the first response requests tool calls and the second requests
\* none, there are exactly two model invocations and the tool-result messages
\* between the two responses are as many as the calls the first requested.
C6_TwoInvocations ==
  Cardinality(ResponsePositions) >= 2 =>
    LET p1 == Min(ResponsePositions)
        p2 == Min(ResponsePositions \ {p1})
    IN (Calls(p1) # <<>> /\ Calls(p2) = <<>>) =>
         /\ modelCalls = 2
         /\ p2 - p1 - 1 = Len(Calls(p1))
         /\ \A q \in (p1 + 1)..(p2 - 1) : messages[q].type = "tool"
         /\ Len(messages) = p2
         /\ pc \in {"graph_end", "returned"}

\* two tools were requested, one of them unknown, then the model answered
C6_Witness ==
  /\ pc = "returned"
  /\ Cardinality(ResponsePositions) = 2
  /\ Len(Calls(initLen + 1)) = 2
  /\ \E q \in ToolMessagePositions : messages[q].content = CStr("Error: Tool nope not found")
  /\ LastMessage.tool_calls = <<>>
  /\ chatOut = Returned("Hello")

\* C7: chat never returns an empty string; when the final message's content
\* is empty it returns the fixed could-not-generate string.
C7_NeverEmpty ==
  chatOut.kind = "returned" =>
    /\ chatOut.value # ""
    /\ (pc = "returned" /\ ~ EndedByException /\ ~ Truthy(LastMessage.content))
         => chatOut.value = FallbackText

\* the final response had an empty list of blocks as content
C7_Witness ==
  /\ pc = "returned"
  /\ messages # <<>>
  /\ LastMessage.type = "ai"
  /\ LastMessage.content = CList(<<>>)
  /\ chatOut = Returned(FallbackText)

\* C8: two get_available_tools calls with no connect_all invoked between
\* them return the same list, even when a per-server tool list changed in
\* between.
C8_CacheHit ==
  (IsSome(prevRead) /\ IsSome(lastRead) /\ ~ connBetween) => lastRead = prevRead

\* a discovery changed a tool list between two calls that returned the same
\* list, which is no longer the flattening of the tool lists
C8_Witness ==
  /\ IsSome(prevRead)
  /\ ~ connBetween
  /\ changedBetween
  /\ lastRead = prevRead
  /\ lastRead # Some(FlattenTools(tools))

\* C9 as stated: a get_available_tools call made after a connect_all has
\* completed returns the flattening of the tool lists that connect_all left.
C9_ReadAfterConnectAll ==
  readAfterConnect => lastRead = Some(FlattenTools(tools))

\* C10 as stated: whenever no connect_all is in progress, the cache is
\* absent or equal to the flattening of the current per-server tool lists.
C10_CacheInvariant ==
  connPc = "idle" => (toolsCache = None \/ toolsCache = Some(FlattenTools(tools)))

\* C11: every list returned by get_available_tools, in any interleaving with
\* connect_all and with other get_available_tools calls, is the complete
\* flattening of the per-server tool lists as they stood at one instant;
\* the same holds for the list kept in the cache.
C11_NoPartialList ==
  /\ IsSome(lastRead) => \E d \in toolsSeen : lastRead[1] = FlattenTools(d)
  /\ IsSome(toolsCache) => \E d \in toolsSeen : toolsCache[1] = FlattenTools(d)

\* a call made while the second connect_all awaits its second server: the
\* first server's list is new, the second server's list is the old one
C11_Witness ==
  /\ connPc = "discover"
  /\ connIdx = 2
  /\ connects = 2
  /\ ~ connSinceRead
  /\ ~ changedSinceRead
  /\ Len(tools) = 2
  /\ DictGet(tools, "fs") # DictGet(tools, "shell")
  /\ lastRead = Some(FlattenTools(tools))

\* the kinds of outcome that are a failure of the discovery request
FailureKinds == {"timeout", "malformed"}

\* the servers (by index) whose discovery failed in the latest connect_all
FailedServers == {i \in 1..Len(discovered) : discovered[i].kind \in FailureKinds}

ConnectAllDone == connPc = "idle" /\ connects > 0

\* C12 as stated: connect_all attempts discovery for every configured
\* server, also after a failure; it never raises; and every discovery
\* failure is logged as a warning.
C12_FailureWarned ==
  ConnectAllDone =>
    /\ Len(discovered) = Len(Servers)
    /\ warnings = Cardinality(FailedServers)

ReadFileTool == Tool("read_file", "Read a file")

\* the latest get_available_tools call was the first one since the latest
\* connect_all began, and was made after that connect_all had completed
FirstReadAfterConnectAll == readAfterConnect /\ connBetween

\* C13: a discovery request that fails (timeout, undecodable payload) raises
\* nothing into connect_all and leaves the server's tool list present and
\* empty; when fs answered the one tool read_file and shell timed out,
\* get_available_tools after connect_all returns exactly read_file tagged fs.
C13_FailureLeavesEmptyList ==
  /\ warnings = 0
  /\ \A i \in FailedServers :
       DictHas(tools, Servers[i]) /\ DictGet(tools, Servers[i]) = <<>>
  /\ ( /\ FirstReadAfterConnectAll
       /\ discovered = <<[kind |-> "ok", gets |-> 1], [kind |-> "timeout", gets |-> 1]>>
       /\ DictGet(tools, "fs") = <<ReadFileTool>> )
      => lastRead = Some(<<TagTool(ReadFileTool, "fs")>>)

\* fs answered read_file, shell timed out, and the registry was then read
C13_Witness ==
  /\ FirstReadAfterConnectAll
  /\ discovered = <<[kind |-> "ok", gets |-> 1], [kind |-> "timeout", gets |-> 1]>>
  /\ tools = <<[key |-> "fs", val |-> <<ReadFileTool>>], [key |-> "shell", val |-> <<>>]>>
  /\ lastRead = Some(<<TagTool(ReadFileTool, "fs")>>)

\* C14 as stated: a server whose discovery got a non-success status in the
\* latest connect_all has no tools in the registry afterwards, whatever an
\* earlier connect_all had discovered for it.
C14_StatusMeansNoTools ==
  \A i \in 1..Len(discovered) :
    discovered[i].kind = "status" =>
      (DictHas(tools, Servers[i]) => DictGet(tools, Servers[i]) = <<>>)

\* C20 as stated: a server's tool list is left empty by a timed-out
\* discovery only after the request was sent three times.
C20_DiscoveryRetried ==
  \A i \in 1..Len(discovered) :
    discovered[i].kind = "timeout" => discovered[i].gets = MaxAttempts

\* the arguments of the wrapped call under way
Config == wrapped.config[1]

Called == wrapped.pc # "idle"

LastError == wrapped.errors[Len(wrapped.errors)]

\* C15: call_tool with a server name outside the configured map is
\* attempted exactly once, sends no HTTP request, is not retried, and the
\* caller gets the unknown-server ValueError.
C15_UnknownServerImmediate ==
  (Called /\ Config.op = "call_tool" /\ Config.server \notin ServerSet) =>
    /\ wrapped.posts = 0
    /\ wrapped.calls <= 1
    /\ wrapped.pc \in {"invoke", "done"}
    /\ wrapped.calls = 1 =>
         /\ wrapped.pc = "done"
         /\ wrapped.out = WrapperRaised(Exc("ValueError", "Unknown MCP server: unknown"))

\* call_tool("unknown", ...) has raised
C15_Witness ==
  /\ Called
  /\ Config.op = "call_tool"
  /\ Config.server = "unknown"
  /\ wrapped.pc = "done"
  /\ wrapped.calls = 1
  /\ wrapped.out.kind = "raised"

\* C16 as stated: for a known server, a call_tool that raises to its caller
\* (after a non-2xx status or after a transport failure) has made three
\* attempts before.
C16_BothFailuresRetried ==
  ( /\ Called
    /\ Config.op = "call_tool"
    /\ Config.server \in ServerSet
    /\ wrapped.out.kind = "raised" )
    => wrapped.calls = MaxAttempts

\* the exception classes that are connection failures, timeouts or (for the
\* model-API decorator) rate-limit signals, by decorator
TransientTypes(policy) ==
  IF policy = "network"
    THEN {"ConnectionError", "TimeoutError", "httpx.ConnectError", "httpx.ReadTimeout"}
    ELSE {"ConnectionError", "TimeoutError", "anthropic.APITimeoutError",
          "anthropic.RateLimitError"}

AllTransient ==
  \A i \in 1..Len(wrapped.errors) : wrapped.errors[i].type \in TransientTypes(Config.policy)

\* C17: the operation is never invoked more than max_attempts times; when
\* every attempt failed with a retryable error and the wrapper raised, the
\* operation was invoked exactly max_attempts times and the caller got the
\* exception of the last attempt, same type and message.
C17_RetryBounded ==
  Called =>
    /\ wrapped.calls <= Config.max_attempts
    /\ (wrapped.out.kind = "raised" /\ AllTransient) =>
         /\ wrapped.calls = Config.max_attempts
         /\ Len(wrapped.errors) = Config.max_attempts
         /\ wrapped.out.exc = LastError

\* three attempts failed with three different retryable errors
C17_Witness ==
  /\ Called
  /\ Config.op = "func"
  /\ Config.max_attempts = 3
  /\ wrapped.calls = 3
  /\ Len(wrapped.errors) = 3
  /\ AllTransient
  /\ wrapped.errors[1].type # wrapped.errors[3].type
  /\ wrapped.errors[2].type # wrapped.errors[3].type
  /\ wrapped.out = WrapperRaised(wrapped.errors[3])

\* C18: an attempt that raises an exception outside the retryable classes
\* is the last one and the caller gets that exception; when it is the first
\* attempt the operation was invoked exactly once, whatever max_attempts is.
C18_NonRetryableImmediate ==
  Called =>
    \A i \in 1..Len(wrapped.errors) :
      wrapped.errors[i].type \notin TransientTypes(Config.policy) =>
        /\ i = Len(wrapped.errors)
        /\ wrapped.calls = i
        /\ wrapped.pc = "done"
        /\ wrapped.out = WrapperRaised(wrapped.errors[i])

\* a function with max_attempts = 3 raised ValueError on its first attempt
C18_Witness ==
  /\ Called
  /\ Config.op = "func"
  /\ Config.max_attempts = 3
  /\ wrapped.errors = <<Exc("ValueError", "Not a network error")>>
  /\ wrapped.calls = 1
  /\ wrapped.pc = "done"

\* C19: a caller that got a result got it after k retryable failures,
\* k < max_attempts, and k + 1 invocations; and as long as every failure
\* was retryable and fewer than max_attempts attempts failed, the caller
\* has got no error.
C19_SucceedsAfterRetries ==
  Called =>
    /\ wrapped.out.kind = "returned" =>
         /\ AllTransient
         /\ Len(wrapped.errors) < Config.max_attempts
         /\ wrapped.calls = Len(wrapped.errors) + 1
         /\ wrapped.out.result \in {"success", "data"}
         /\ wrapped.out.exc = NoExc
    /\ (AllTransient /\ Len(wrapped.errors) < Config.max_attempts) =>
         wrapped.out.kind # "raised"

\* a sync function failed twice with a retryable error, then succeeded
C19_Witness ==
  /\ Called
  /\ Config.op = "func"
  /\ Config.mode = "sync"
  /\ Len(wrapped.errors) = 2
  /\ AllTransient
  /\ wrapped.calls = 3
  /\ wrapped.out = WrapperReturned("success")

\* max_attempts default of retry_on_anthropic_error
AnthropicMaxAttempts == 3

\* chat ended in its outermost handler because a model invocation raised
EndedByModelError == EndedByException /\ messages # <<>>

\* C21 as stated: when a model invocation fails with a retryable error (the
\* provider's rate limit), chat returns the apology only after the failing
\* invocation was attempted max_attempts times: the model was requested once
\* per response received and three times for the failing invocation.
C21_ModelCallRetried ==
  EndedByModelError =>
    modelCalls = Cardinality(ResponsePositions) + AnthropicMaxAttempts

\* the apology text of the code, which is English
EnglishApology == "I apologize, I couldn't generate a response. Please try again."

\* C30 as stated: the apology is selected by the request's language, so a
\* failing request with language pl does not get the apology that a failing
\* request with language en gets.
C30_ApologyByLanguage ==
  (EndedByException /\ input[1].language = "pl") => chatOut.value # EnglishApology

\* the wait the statement gives for the retry after failed attempt k:
\* min(max_wait, min_wait * multiplier^(k-1))
StatedWait(policy, k) ==
  IF policy = "network" THEN Min2(10, 1 * Pow(1, k - 1)) ELSE Min2(30, 2 * Pow(2, k - 1))

\* C22 as stated: the wait before the retry that follows failed attempt k is
\* min(max_wait, min_wait * multiplier^(k-1)), multiplier 1 with waits 1..10
\* for the network decorator and multiplier 2 with waits 2..30 for the
\* model-API decorator.
C22_WaitAsStated ==
  Called =>
    \A k \in 1..Len(wrapped.sleeps) : wrapped.sleeps[k] = StatedWait(Config.policy, k)

\* the waits in seconds, by decorator
WaitTable(policy) ==
  IF policy = "network" THEN <<1, 2, 4, 8, 10, 10>> ELSE <<2, 4, 8, 16, 30, 30>>

\* C22 amended: the wait before the retry that follows failed attempt k is
\* min(max_wait, max(min_wait, multiplier * 2^(k-1))): 1, 2, 4, 8, 10, 10
\* seconds for the network decorator and 2, 4, 8, 16, 30, 30 seconds for the
\* model-API decorator; there is one wait per failed attempt that is
\* followed by another attempt.
C22_WaitDoubles ==
  Called =>
    /\ Len(wrapped.sleeps) = IF wrapped.pc = "done" /\ wrapped.out.kind = "raised"
                               THEN wrapped.calls - 1
                               ELSE Len(wrapped.errors)
    /\ \A k \in 1..Len(wrapped.sleeps) : wrapped.sleeps[k] = WaitTable(Config.policy)[k]

\* five retries of a network-decorated function: the last wait is capped
C22_Witness ==
  /\ Called
  /\ Config.policy = "network"
  /\ Config.max_attempts = 6
  /\ wrapped.sleeps = <<1, 2, 4, 8, 10>>

\* C23 as stated: every invocation of call_tool that has ended, whatever
\* its outcome and also when it raised, has recorded one counter increment
\* and latency observation, labelled with the server and with status error
\* if it raised and success if it returned.
C23_MetricsEveryInvocation ==
  (Called /\ Config.op = "call_tool" /\ wrapped.pc \in {"invoke", "done"}) =>
    /\ Len(wrapped.metrics) = wrapped.calls
    /\ \A i \in 1..Len(wrapped.metrics) :
         /\ wrapped.metrics[i].server = Config.server
         /\ wrapped.metrics[i].status =
              IF i <= Len(wrapped.errors) THEN "error" ELSE "success"

\* the latest get_available_tools call found the cache absent (it was the
\* first call ever or the first since a connect_all began) and the tool
\* lists are still the ones it read
MissRead ==
  /\ IsSome(lastRead)
  /\ connBetween \/ prevRead = None
  /\ ~ changedSinceRead

RECURSIVE TotalTools(_)
TotalTools(d) == IF d = <<>> THEN 0 ELSE Len(d[1].val) + TotalTools(Tail(d))

\* number of tools of the servers before the i-th one of the mapping
Offset(d, i) == TotalTools(SubSeq(d, 1, i - 1))

\* C24: on a cache miss get_available_tools returns as many entries as the
\* per-server lists hold in total; the j-th tool of the i-th server of the
\* mapping comes after all tools of the servers before it and after the
\* tools before it in its list, with its own fields and its server's name.
C24_MissFlattens ==
  MissRead =>
    LET r == lastRead[1] IN
      /\ Len(r) = TotalTools(tools)
      /\ \A i \in 1..Len(tools) : \A j \in 1..Len(tools[i].val) :
           r[Offset(tools, i) + j] =
             [name |-> tools[i].val[j].name,
              description |-> tools[i].val[j].description,
              server |-> tools[i].key]
      /\ ~ connSinceRead => toolsCache = Some(r)

\* a miss on a mapping whose first server has one tool and whose second
\* server has two
C24_Witness ==
  /\ MissRead
  /\ Len(tools) = 2
  /\ Len(tools[1].val) = 1
  /\ Len(tools[2].val) = 2
  /\ Len(lastRead[1]) = 3
  /\ lastRead[1][3].name = "run"

\* a step in which connect_all neither starts nor resumes: the steps of
\* get_available_tools callers
NoConnectStep ==
  /\ connPc' = connPc
  /\ connIdx' = connIdx
  /\ discAttempt' = discAttempt
  /\ connects' = connects

NoServerTag(d) ==
  \A i \in 1..Len(d) : \A j \in 1..Len(d[i].val) :
    DOMAIN d[i].val[j] = {"name", "description"}

\* C25: a get_available_tools call leaves every per-server tool list as it
\* was; the discovered entries never carry the owning-server tag.
C25_ReadLeavesToolsUnchanged ==
  [][NoConnectStep => (tools' = tools /\ NoServerTag(tools'))]_vars

\* a miss has merged a non-empty mapping, whose entries are untagged
C25_Witness ==
  /\ MissRead
  /\ lastRead[1] # <<>>
  /\ lastRead[1][1].server = tools[1].key
  /\ tools[1].val # <<>>
  /\ NoServerTag(tools)

\* C26 as stated: no two entries of a list returned by get_available_tools
\* have the same name.
C26_UniqueNames ==
  IsSome(lastRead) =>
    \A i, j \in 1..Len(lastRead[1]) :
      i # j => lastRead[1][i].name # lastRead[1][j].name

\* the request whose set-up has been done
Request == input[1]

RecognizedRoles == {"user", "assistant", "system"}

\* positions of the history entries with a recognized role
Kept(h) == {i \in 1..Len(h) : h[i].role \in RecognizedRoles}

\* the k-th of those positions, in the order of the history
KthKept(h, k) == CHOOSE i \in Kept(h) : Cardinality({j \in Kept(h) : j < i}) = k - 1

\* chat has built its message sequence and no model call was made yet
SequenceBuilt == IsSome(input) /\ pc = "call_model" /\ modelCalls = 0

\* C27: the message sequence handed to the first model call is the system
\* prompt, the mapped history and the new user message: 2 entries for an
\* empty history, 1 + N + 1 minus the number of entries with an unrecognized
\* role for a history of N entries.
C27_InitialSequence ==
  SequenceBuilt =>
    LET h == Request.history
        unrecognized == Cardinality({i \in 1..Len(h) : h[i].role \notin RecognizedRoles})
    IN /\ Len(messages) = 1 + Len(h) + 1 - unrecognized
       /\ h = <<>> => Len(messages) = 2
       /\ messages[1].type = "system"
       /\ messages[1].content.text = BuildSystemPrompt(Request.interface, Request.language)
       /\ messages[Len(messages)] = HumanMessage(CStr(Request.message))
       /\ initLen = Len(messages)

\* a history of three entries, one of them with an unrecognized role
C27_Witness ==
  /\ SequenceBuilt
  /\ Len(Request.history) = 3
  /\ Cardinality(Kept(Request.history)) = 2
  /\ Len(messages) = 4

MessageKind(role) ==
  CASE role = "user" -> "human"
    [] role = "assistant" -> "ai"
    [] role = "system" -> "system"

\* the recognized entries of the history all have content a message accepts
HistoryWellFormed(h) == \A i \in Kept(h) : h[i].content.kind # "invalid"

\* C28: the mapped history holds exactly the entries with role user,
\* assistant or system, each as the message kind of its role with its
\* content, in the order of the history; entries with another role are
\* skipped, and skipping them raises nothing.
C28_HistoryMapping ==
  /\ SequenceBuilt =>
       LET h == Request.history
           mapped == SubSeq(messages, 2, Len(messages) - 1)
       IN /\ Len(mapped) = Cardinality(Kept(h))
          /\ \A k \in 1..Len(mapped) :
               /\ mapped[k].type = MessageKind(h[KthKept(h, k)].role)
               /\ mapped[k].content = h[KthKept(h, k)].content
               /\ mapped[k].tool_calls = <<>>
  /\ (IsSome(input) /\ HistoryWellFormed(Request.history)) =>
       (pc = "call_model" /\ chatOut = NoOutcome)

\* a system entry after a user entry stays in place, an entry with role tool
\* and unusable content is skipped, a repeated entry is kept
C28_Witness ==
  /\ SequenceBuilt
  /\ Request.history = <<Entry("user", CStr("a")), Entry("system", CStr("b")),
                         Entry("user", CStr("a"))>>
     \/ Request.history = <<Entry("user", CStr("a")), Entry("tool", CInvalid),
                            Entry("assistant", CStr("b"))>>
  /\ messages[2] = HumanMessage(CStr("a"))
  /\ Len(messages) \in {4, 5}

\* the clause appended for a value, with the blank line before it
Clause(o) == IF IsSome(o) THEN "\n\n" \o o[1] ELSE ""

\* C29: the system prompt is the base instruction, then (after a blank line)
\* the interface clause if the interface is voice, telegram or api, then
\* (after a blank line) the language clause if the language is pl or en;
\* any other interface or language adds nothing.
C29_SystemPrompt ==
  SequenceBuilt =>
    LET f == Request.interface
        l == Request.language
        prompt == messages[1].content.text
    IN /\ prompt = BasePrompt
                     \o (IF f \in {"voice", "telegram", "api"} THEN Clause(InterfacePrompt(f)) ELSE "")
                     \o (IF l \in {"pl", "en"} THEN Clause(LanguagePrompt(l)) ELSE "")
       /\ (f = "voice" /\ l = "pl") =>
            prompt = "You are a helpful AI assistant with access to various tools and systems.\nYou can help with tasks, answer questions, and interact with connected services.\n\nThe user is interacting via voice. Keep responses concise and conversational.\n\nRespond in Polish."
       /\ (f \in {"Voice", "sms"} /\ l \in {"de", ""}) => prompt = BasePrompt

\* the prompts of a voice request in Polish and of a request with unknown
\* interface and language were both built (the latter is the one of this state)
C29_Witness ==
  /\ SequenceBuilt
  /\ Request.interface = "Voice"
  /\ Request.language = "de"
  /\ messages[1].content.text = BasePrompt

\* ----------------------------------------------------- session store claims
\* the add_message call in flight has returned
AddMessageReturned ==
  /\ storeCall.op = "add_message"
  /\ storeCall.pc = "idle"
  /\ storeCall.out.kind = "returned"

\* the last n elements of a sequence
LastN(q, n) == SubSeq(q, Len(q) - Min2(Len(q), n) + 1, Len(q))

\* C31: after every add_message that returned, the stored history holds at
\* most 50 entries, and they are the most recently appended ones in append
\* order.
C31_HistoryCapped ==
  AddMessageReturned =>
    /\ Len(session) <= 50
    /\ session = LastN(pushLog, 50)

\* more than 50 entries were appended and the history holds the last 50
C31_Witness ==
  /\ AddMessageReturned
  /\ Len(pushLog) > 50
  /\ Len(session) = 50
  /\ session[1] # pushLog[1]

\* C40: an add_message call that returned has appended its message to the
\* session history exactly once, whatever Redis errors the retry wrapper
\* absorbed on the way.
C40_AppendedOnce ==
  AddMessageReturned => storeCall.applied = 1

\* ------------------------------------------------------------ health claims
\* the configured servers of a report for which no tool is discovered
ZeroToolServers(h) ==
  {s \in {h.of_servers[i] : i \in 1..Len(h.of_servers)} :
     \A j \in 1..Len(h.of_tools) : h.of_tools[j].key = s => h.of_tools[j].val = <<>>}

\* C32: check_health reports 'unhealthy' exactly when the Redis ping fails,
\* otherwise 'degraded' exactly when a configured server has no discovered
\* tool, otherwise 'healthy' (so also when no server is configured); the
\* healthy-server count is the number of configured servers with a tool.
C32_HealthStatus ==
  IsSome(health) =>
    LET h == health[1]
        configured == {h.of_servers[i] : i \in 1..Len(h.of_servers)}
    IN /\ h.status = "unhealthy" <=> h.ping # ""
       /\ h.status = "degraded" <=> (h.ping = "" /\ ZeroToolServers(h) # {})
       /\ h.status = "healthy" <=> (h.ping = "" /\ ZeroToolServers(h) = {})
       /\ (h.ping = "" /\ h.of_servers = <<>>) => h.status = "healthy"
       /\ h.mcp_servers.healthy = Cardinality(configured \ ZeroToolServers(h))

\* a report with Redis reachable and no configured server with a tool: the
\* tool-server component is unhealthy, the service degraded
C32_Witness ==
  /\ IsSome(health)
  /\ health[1].ping = ""
  /\ health[1].of_servers = Servers
  /\ ZeroToolServers(health[1]) = ServerSet
  /\ health[1].of_tools # <<>>
  /\ health[1].status = "degraded"
  /\ health[1].mcp_servers.healthy = 0

\* -------------------------------------------------------- agent loop claims
\* the state of the agent loop a chat request is in, if it is in the loop
LoopState ==
  CASE pc \in {"call_model", "model_wait"} -> "CALL_MODEL"
    [] pc \in {"execute_tools", "tool_wait"} -> "EXECUTE_TOOLS"
    [] pc = "graph_end" -> "DONE"
    [] OTHER -> "NONE"

\* the model's latest response asks for tool calls
PendingToolCalls(ms) ==
  /\ ms # <<>>
  /\ ms[Len(ms)].type = "ai"
  /\ ms[Len(ms)].tool_calls # <<>>

\* a step of the loop, apart from what follows a finished tool batch: the
\* loop is entered at CALL_MODEL; a response with tool-call requests leads to
\* EXECUTE_TOOLS and one without to DONE, and nothing else does; a model
\* error ends the request without a response; EXECUTE_TOOLS is left for
\* CALL_MODEL only; DONE is left only by chat returning
\* (steps of other tasks leave the request where it is)
ChatStep == ~ UNCHANGED chatVars

LoopStep ==
  ChatStep =>
  /\ (pc = "idle" /\ pc' # "idle") => pc' \in {"call_model", "returned"}
  /\ pc = "model_wait" =>
       \/ /\ messages' # messages
          /\ messages'[Len(messages')].type = "ai"
          /\ IF PendingToolCalls(messages') THEN pc' = "execute_tools" ELSE pc' = "graph_end"
       \/ messages' = messages /\ pc' = "returned"
  /\ pc' = "execute_tools" =>
       /\ pc \in {"model_wait", "execute_tools", "tool_wait"}
       /\ PendingToolCalls(messages')
       /\ tcIdx' \in 1..Len(messages'[Len(messages')].tool_calls)
  /\ pc' = "graph_end" => pc = "model_wait" /\ ~ PendingToolCalls(messages')
  /\ pc \in {"execute_tools", "tool_wait"} =>
       pc' \in {"execute_tools", "tool_wait", "call_model"}
  /\ pc = "graph_end" => pc' = "returned" /\ chatOut'.kind = "returned"
  /\ pc = "returned" => pc' = "returned"
  /\ LoopState' \in {"CALL_MODEL", "EXECUTE_TOOLS", "DONE", "NONE"}

\* CALL_MODEL is always followed by a model invocation
ModelInvokedNext == (ChatStep /\ pc = "call_model") => pc' = "model_wait"

\* CALL_MODEL is followed by a model invocation unless the step counter of
\* the run has passed the recursion limit, where the request ends with the
\* apology
ModelInvokedOrCapped ==
  (ChatStep /\ pc = "call_model") =>
    IF step <= RecursionLimit THEN pc' = "model_wait"
    ELSE pc' = "returned" /\ chatOut' = Returned(ApologyText)

Responses == SelectSeq(SubSeq(messages, initLen + 1, Len(messages)), LAMBDA m : m.type = "ai")

\* every model invocation of the request returned a response, and every
\* response asked for at least one tool call
ModelAlwaysRequestsTools ==
  /\ modelCalls > 0
  /\ Len(Responses) = modelCalls
  /\ \A i \in 1..Len(Responses) : Responses[i].tool_calls # <<>>

\* C34 as stated: there is no iteration bound; against a model that requests
\* a tool call in every response the request never ends.
C34_NoIterationCap == ModelAlwaysRequestsTools => pc # "returned"

\* C34 as amended: the graph run is bounded by the recursion limit of the
\* graph library (25 by default): a request makes at most 13 model
\* invocations, no invocation before the 13th is refused, and against a model
\* that requests a tool call in every response chat returns the apology
\* after the 13th.
C34_IterationsCapped ==
  /\ modelCalls <= (RecursionLimit + 1) \div 2
  /\ step <= RecursionLimit + 1
  /\ (pc = "call_model" /\ modelCalls < (RecursionLimit + 1) \div 2) => step <= RecursionLimit
  /\ (ModelAlwaysRequestsTools /\ pc = "returned") =>
       /\ modelCalls = (RecursionLimit + 1) \div 2
       /\ chatOut = Returned(ApologyText)

\* the request ended by the limit, after 13 responses that asked for a tool
C34_Witness ==
  /\ pc = "returned"
  /\ ModelAlwaysRequestsTools
  /\ modelCalls = 13
  /\ chatOut = Returned(ApologyText)

IsPrefix(s, t) == Len(s) <= Len(t) /\ SubSeq(t, 1, Len(s)) = s

\* the messages t has after s
Added(s, t) == SubSeq(t, Len(s) + 1, Len(t))

\* new are the tool results of the tool calls of response ai, one per call
\* and in their order
ResultsOf(ai, new) ==
  /\ Len(new) = Len(ai.tool_calls)
  /\ \A i \in 1..Len(new) :
       new[i].type = "tool" /\ new[i].tool_call_id = ai.tool_calls[i].id

\* position of the latest response in the message sequence
LastResponseAt == CHOOSE k \in 1..Len(messages) :
                    /\ messages[k].type = "ai"
                    /\ \A j \in (k + 1)..Len(messages) : messages[j].type # "ai"

\* C35: within one chat request the message sequence only grows at its end:
\* a model invocation appends its response, a tool batch appends the results
\* of that response's tool calls, nothing else changes it; so the sequence
\* passed to a model invocation after the first is the one passed to the
\* invocation before it, then that invocation's response, then the results
\* of its tool calls.
C35_AppendOnly ==
  [][ (ChatStep /\ pc # "idle") =>
        /\ IsPrefix(messages, messages')
        /\ pc = "call_model" => messages' = messages
        /\ (pc = "model_wait" /\ messages' # messages) =>
             /\ Len(messages') = Len(messages) + 1
             /\ messages'[Len(messages')].type = "ai"
        /\ (pc \in {"execute_tools", "tool_wait"} /\ messages' # messages) =>
             /\ pc' = "call_model"
             /\ ResultsOf(messages[Len(messages)], Added(messages, messages'))
        /\ pc \in {"graph_end", "returned"} => messages' = messages
        /\ (pc' = "model_wait" /\ pc = "call_model" /\ modelCalls >= 1) =>
             LET k == LastResponseAt IN
               /\ k > initLen
               /\ k < Len(messages')
               /\ ResultsOf(messages'[k], Added(SubSeq(messages', 1, k), messages'))
    ]_vars

\* the second model invocation of a request is under way, on the first
\* sequence extended by a response with two tool calls and their two results
C35_Witness ==
  /\ pc = "model_wait"
  /\ modelCalls = 2
  /\ Len(messages) = initLen + 3
  /\ Len(messages[initLen + 1].tool_calls) = 2
  /\ messages[initLen + 3].tool_call_id = messages[initLen + 1].tool_calls[2].id

\* a model invocation is started in this step
InvocationStarts == pc = "call_model" /\ pc' = "model_wait"

\* C36: every model invocation is bound to the tools get_available_tools
\* returns at that CALL_MODEL, one schema per tool in the same order, and is
\* made with no tools bound when that list is empty; what an earlier
\* invocation was bound to plays no part.
C36_BoundFresh ==
  [][ InvocationStarts =>
        LET snapshot == GetAvailableTools(toolsCache, tools).result IN
          /\ lastRead' = Some(snapshot)
          /\ IF snapshot = <<>>
               THEN boundTools' = None
               ELSE /\ IsSome(boundTools')
                    /\ Len(boundTools'[1]) = Len(snapshot)
                    /\ \A i \in 1..Len(snapshot) :
                         /\ boundTools'[1][i].type = "function"
                         /\ boundTools'[1][i].name = snapshot[i].name
                         /\ boundTools'[1][i].description = snapshot[i].description
    ]_vars

\* the second invocation of a request is bound to read_file, which the
\* registry did not have when the first response asked for it
C36_Witness ==
  /\ pc = "model_wait"
  /\ modelCalls = 2
  /\ IsSome(boundTools)
  /\ \E i \in 1..Len(boundTools[1]) : boundTools[1][i].name = "read_file"
  /\ messages[initLen + 1].tool_calls[1].name = "read_file"
  /\ messages[initLen + 2] = NotFoundMessage(messages[initLen + 1].tool_calls[1])

\* ------------------------------------------------------- owning server claims
\* the keys of the registry's tool lists
RegistryKeys == {tools[i].key : i \in 1..Len(tools)}

\* the owning-server tags of a list returned by get_available_tools
TagsOf(list) == {list[i].server : i \in 1..Len(list)}

\* C38: every server that has a tool list in the registry, and so every
\* owning-server tag of a list get_available_tools returned or cached, is a
\* configured server; a tool the agent loop dispatches through its owner
\* lookup never makes call_tool raise the unknown-server error.
C38_OwnersConfigured ==
  /\ RegistryKeys \subseteq ServerSet
  /\ IsSome(toolsCache) => TagsOf(toolsCache[1]) \subseteq ServerSet
  /\ IsSome(lastRead) => TagsOf(lastRead[1]) \subseteq ServerSet
  /\ IsSome(owner) => owner[1] \in ServerSet
  /\ \A s \in ServerSet :
       ~ (toolOut.kind = "raised" /\ toolOut.text = UnknownServerText(s))
  /\ \A p \in 1..Len(messages), s \in ServerSet \cup RegistryKeys :
       messages[p].content # CStr("Error: " \o UnknownServerText(s))

\* a dispatched tool call was answered by the server that owns the tool
C38_Witness ==
  /\ toolOut.kind = "returned"
  /\ RegistryKeys = ServerSet
  /\ IsSome(lastRead)
  /\ TagsOf(lastRead[1]) = ServerSet

\* ------------------------------------------------------------ handler claims
\* number of positions of a sequence that hold x
Count(q, x) == Cardinality({i \in 1..Len(q) : q[i] = x})

\* the entries of the session when the request arrived, as chat gets them
HistoryBefore == [i \in 1..Len(handler.before) |-> HistoryEntry(JsonLoads(handler.before[i]))]

\* C39: the handler reads the history before it stores the user message,
\* stores the user message before the agent runs and the reply after the
\* agent returned: the sequence sent to the model holds the new user message
\* once (after the history as it was before the request), and after a
\* successful request handled in isolation the session ends with the user
\* message followed by the reply.
C39_HandlerOrder ==
  /\ handler.pc \in {"add_user", "agent", "add_assistant"} =>
       handler.history = [i \in 1..Len(handler.before) |-> JsonLoads(handler.before[i])]
  /\ (handler.pc = "agent" /\ IsSome(input)) =>
       /\ input[1].history = HistoryBefore
       /\ storeCall.op = "add_message" /\ storeCall.role = "user"
       /\ storeCall.out.kind = "returned"
       /\ pushLog # <<>> /\ pushLog[Len(pushLog)] = JsonDumps([role |-> "user", content |-> handler.message])
       /\ pc # "returned" =>
            /\ SubSeq(messages, 2, initLen - 1) = ConvertHistoryToMessages(HistoryBefore)
            /\ messages[initLen] = HumanMessage(CStr(handler.message))
            /\ Count(SubSeq(messages, 1, initLen), HumanMessage(CStr(handler.message)))
                 = 1 + Count(handler.before,
                             JsonDumps([role |-> "user", content |-> handler.message]))
  /\ (handler.pc = "done" /\ handler.status = 200) =>
       /\ Len(session) >= 2
       /\ session[Len(session) - 1] = JsonDumps([role |-> "user", content |-> handler.message])
       /\ session[Len(session)] = JsonDumps([role |-> "assistant", content |-> handler.response])

\* the same for requests during which no Redis command failed
C39_HandlerOrderNoFault == faults = 0 => C39_HandlerOrder

====
